---- MODULE Spec2Model ----
(***************************************************************************)
(* Model of mcp_appium.bridge.AppiumBridge: the session handling of        *)
(* connect/disconnect and the snapshot -> plan -> execute loop of          *)
(* run_instruction, with the per-action handlers of _execute_plan.         *)
(* The device, the Appium driver and the planner are the environment:      *)
(* every driver call may succeed or raise, every plan is any plan.         *)
(***************************************************************************)
EXTENDS Integers, Sequences, FiniteSets, TLC

(* ------------------------------ bounds --------------------------------- *)
\* largest max_turns a caller passes to run_instruction
MaxTurns == 2
\* most actions the planner returns over all the plans of one behaviour
MaxActions == 2
\* number of calls the caller makes on one bridge
MaxCalls == 2
\* largest max_retries a caller passes to connect
MaxRetriesArg == 3
\* max_turns of the one long run of SpecLedger
LedgerTurns == 8
\* number of collect_nodes() calls the caller makes in SpecCollect
MaxAcquisitions == 3

(* --------------------------- program constants ------------------------- *)
\* connect(self, max_retries: int = 3, ...)
DefaultMaxRetries == 3
\* history[-6:]
HistoryWindow == 6

(* ------------------------------ values --------------------------------- *)
\* Python values carried by an action: None, a string (a sequence of
\* one-character strings), an int, a bool, a list or tuple of values.
PyNone == [t |-> "none"]
PyStr(s) == [t |-> "str", s |-> s]
PyInt(n) == [t |-> "int", n |-> n]
PyList(v) == [t |-> "list", v |-> v]
PyBool(b) == [t |-> "bool", b |-> b]

\* Python truthiness of a value (bool(x))
Truthy(x) ==
    CASE x.t = "none" -> FALSE
      [] x.t = "str" -> x.s # <<>>
      [] x.t = "int" -> x.n # 0
      [] x.t = "list" -> x.v # <<>>
      [] x.t = "bool" -> x.b
      [] OTHER -> TRUE

(* ------------------------------ strings -------------------------------- *)
Digits == {"0", "1", "2", "3", "4", "5", "6", "7", "8", "9"}

DigitVal(c) ==
    CASE c = "0" -> 0 [] c = "1" -> 1 [] c = "2" -> 2 [] c = "3" -> 3
      [] c = "4" -> 4 [] c = "5" -> 5 [] c = "6" -> 6 [] c = "7" -> 7
      [] c = "8" -> 8 [] c = "9" -> 9

IsSpace(c) == c \in {" ", "\t", "\n"}

RECURSIVE LStrip(_)
LStrip(s) == IF s # <<>> /\ IsSpace(Head(s)) THEN LStrip(Tail(s)) ELSE s

RECURSIVE RStrip(_)
RStrip(s) ==
    IF s # <<>> /\ IsSpace(s[Len(s)]) THEN RStrip(SubSeq(s, 1, Len(s) - 1)) ELSE s

\* str.strip()
Strip(s) == RStrip(LStrip(s))

\* a in b for strings
IsSubstr(a, b) ==
    \E i \in 0..(Len(b) - Len(a)) : SubSeq(b, i + 1, i + Len(a)) = a

\* str.replace(",", " ")
ReplaceCommas(s) == [i \in 1..Len(s) |-> IF s[i] = "," THEN " " ELSE s[i]]

\* str.split(): the maximal runs of non-whitespace characters, in order
RECURSIVE SplitFrom(_, _)
SplitFrom(s, cur) ==
    IF s = <<>> THEN (IF cur = <<>> THEN <<>> ELSE <<cur>>)
    ELSE IF IsSpace(Head(s))
         THEN (IF cur = <<>> THEN <<>> ELSE <<cur>>) \o SplitFrom(Tail(s), <<>>)
         ELSE SplitFrom(Tail(s), Append(cur, Head(s)))

Split(s) == SplitFrom(s, <<>>)

RECURSIVE DigitsValue(_, _)
DigitsValue(s, acc) ==
    IF s = <<>> THEN acc ELSE DigitsValue(Tail(s), 10 * acc + DigitVal(Head(s)))

\* int(s) for a string s: surrounding whitespace, an optional sign, then
\* one or more digits; anything else is a ValueError
ParseIntStr(s) ==
    LET t == Strip(s)
        signed == t # <<>> /\ Head(t) \in {"+", "-"}
        body == IF signed THEN Tail(t) ELSE t
    IN  IF body # <<>> /\ \A i \in 1..Len(body) : body[i] \in Digits
        THEN [ok |-> TRUE,
              n |-> IF signed /\ Head(t) = "-" THEN 0 - DigitsValue(body, 0)
                    ELSE DigitsValue(body, 0)]
        ELSE [ok |-> FALSE, n |-> 0]

\* int(x) for a Python value: [ok, n, exc]
ToInt(x) ==
    CASE x.t = "int" -> [ok |-> TRUE, n |-> x.n, exc |-> ""]
      [] x.t = "bool" -> [ok |-> TRUE, n |-> IF x.b THEN 1 ELSE 0, exc |-> ""]
      [] x.t = "str" ->
            LET p == ParseIntStr(x.s)
            IN  [ok |-> p.ok, n |-> p.n, exc |-> IF p.ok THEN "" ELSE "ValueError"]
      [] OTHER -> [ok |-> FALSE, n |-> 0, exc |-> "TypeError"]

(* ------------------------------ metadata ------------------------------- *)
\* action.metadata is a dict: a function from the keys present to values
EmptyMeta == [k \in {} |-> PyNone]

\* dict.get(key, default)
MetaGet(m, key, default) == IF key \in DOMAIN m THEN m[key] ELSE default

\* a setdefault that replaces the value of a key that is present
MetaOverwrite(m, key, v) == [k \in DOMAIN m \cup {key} |-> IF k = key THEN v ELSE m[k]]

\* dict.setdefault(key, v)
MetaSetDefault(m, key, v) ==
    IF key \in DOMAIN m THEN m
    ELSE [k \in DOMAIN m \cup {key} |-> IF k = key THEN v ELSE m[k]]

\* bool(action.metadata)
MetaTruthy(m) == DOMAIN m # {}

(* ------------------------------- nodes --------------------------------- *)
\* NodeSnapshot.preferred_locator: PyNone when nothing is derivable
preferred_locator(node) ==
    IF node.resource_id # <<>>
    THEN [strategy |-> "id", value |-> PyStr(node.resource_id)]
    ELSE IF node.content_desc # <<>>
    THEN [strategy |-> "accessibility_id", value |-> PyStr(node.content_desc)]
    ELSE IF node.text # <<>>
    THEN [strategy |-> "text", value |-> PyStr(node.text)]
    ELSE [strategy |-> "", value |-> PyNone]

\* int(n / 2): true division, then truncation toward zero
HalfTrunc(n) == IF n >= 0 THEN n \div 2 ELSE 0 - ((0 - n) \div 2)

\* _center_of_bounds: PyNone for the all-zero rectangle
center_of_bounds(b) ==
    IF b[1] = b[3] /\ b[3] = b[2] /\ b[2] = b[4] /\ b[4] = 0
    THEN PyNone
    ELSE PyList(<<PyInt(HalfTrunc(b[1] + b[3])), PyInt(HalfTrunc(b[2] + b[4]))>>)

\* AppiumBridge._node_from_index: 0 when there is no such node, else the
\* 1-based position in nodes
\* a _node_from_index that counts the nodes from 0
node_from_index_zero_based(value, nodes) ==
    IF ~Truthy(value) THEN 0
    ELSE LET i == ToInt(value)
         IN  IF ~i.ok THEN 0
             ELSE IF i.n < 0 \/ i.n >= Len(nodes) THEN 0
             ELSE i.n + 1

node_from_index(value, nodes) ==
    IF ~Truthy(value) THEN 0
    ELSE LET i == ToInt(value)
         IN  IF ~i.ok THEN 0
             ELSE IF i.n <= 0 \/ i.n > Len(nodes) THEN 0
             ELSE i.n

(* ------------------------- coordinate parsing -------------------------- *)
NoCoords == [k |-> "none"]
Coords(x, y) == [k |-> "coords", x |-> x, y |-> y]
CoordsRaise(e) == [k |-> "raise", exc |-> e]

\* AppiumBridge._parse_coordinates
parse_coordinates(raw) ==
    IF ~Truthy(raw) THEN NoCoords
    ELSE IF raw.t = "list" /\ Len(raw.v) >= 2
    THEN LET a == ToInt(raw.v[1])
             b == ToInt(raw.v[2])
         IN  IF ~a.ok THEN CoordsRaise(a.exc)
             ELSE IF ~b.ok THEN CoordsRaise(b.exc)
             ELSE Coords(a.n, b.n)
    ELSE IF raw.t # "str" THEN CoordsRaise("AttributeError")
    ELSE LET parts == Split(ReplaceCommas(raw.s))
             ints == [i \in 1..Len(parts) |-> ParseIntStr(parts[i])]
         IN  IF \E i \in 1..Len(parts) : ~ints[i].ok THEN NoCoords
             ELSE IF Len(parts) >= 2 THEN Coords(ints[1].n, ints[2].n)
             ELSE NoCoords

(* --------------------------- locator helpers --------------------------- *)
\* What the device answers during one action: env.find1 and env.find2 the
\* first and second find_element ("hit", or "miss": it raises), env.kbd
\* is_keyboard_shown ("shown", "hidden", "error"), env.hide hide_keyboard,
\* env.active switch_to.active_element, env.edit the EditText lookup,
\* env.elem the methods of a found element, env.gesture perform(), back()
\* and get_window_size(), env.text the found element's text.
StrategyMap == {"id", "accessibility_id", "xpath", "android_uiautomator", "ios_predicate"}

\* one driver call (or sleep) and whether it succeeded
C(name) == [c |-> name, ok |-> TRUE]
F(name) == [c |-> name, ok |-> FALSE]

\* what a lookup gave: st "ok" or "raise", elem whether an element was found
Found(calls) == [st |-> "ok", exc |-> "", elem |-> TRUE, calls |-> calls]
NotFound(calls) == [st |-> "ok", exc |-> "", elem |-> FALSE, calls |-> calls]
LookupRaised(calls) ==
    [st |-> "raise", exc |-> "NoSuchElementException", elem |-> FALSE, calls |-> calls]

\* AppiumBridge._find_element
find_element(strategy, value, drv, answer) ==
    IF drv = 0 \/ strategy = "" \/ ~Truthy(value) THEN NotFound(<<>>)
    ELSE IF strategy \notin StrategyMap THEN NotFound(<<>>)
    ELSE IF answer = "hit" THEN Found(<<C("find_element")>>)
    ELSE LookupRaised(<<F("find_element")>>)

\* AppiumBridge._is_keyboard_shown: [shown, calls]
is_keyboard_shown(drv, env) ==
    IF drv = 0 THEN [shown |-> FALSE, calls |-> <<>>]
    ELSE [shown |-> env.kbd = "shown",
          calls |-> <<[c |-> "is_keyboard_shown", ok |-> env.kbd # "error"]>>]

\* AppiumBridge._hide_keyboard: the call it makes; a failure is swallowed
hide_keyboard(drv, env) ==
    IF drv = 0 THEN <<>> ELSE <<[c |-> "hide_keyboard", ok |-> env.hide = "ok"]>>

\* a retry that hides the keyboard and looks up a second and a third time
retry_twice(f1, kb, hide, f2) ==
    IF f1.st = "raise" \/ f1.elem THEN f1
    ELSE IF ~kb.shown THEN [f1 EXCEPT !.calls = f1.calls \o kb.calls]
    ELSE [f2 EXCEPT !.calls = f1.calls \o kb.calls \o hide \o <<C("time.sleep")>>
                               \o f2.calls \o hide \o <<C("time.sleep")>> \o f2.calls]

\* after the first lookup f1: on no element and the keyboard shown (kb),
\* hide it, sleep and take the second lookup f2
retry_once(f1, kb, hide, f2) ==
    IF f1.st = "raise" \/ f1.elem THEN f1
    ELSE IF ~kb.shown THEN [f1 EXCEPT !.calls = f1.calls \o kb.calls]
    ELSE [f2 EXCEPT !.calls = f1.calls \o kb.calls \o hide \o <<C("time.sleep")>>
                               \o f2.calls]

\* _find_element with the keyboard-hide retry around it
find_with_retry(strategy, value, drv, env) ==
    retry_once(find_element(strategy, value, drv, env.find1),
               is_keyboard_shown(drv, env),
               hide_keyboard(drv, env),
               find_element(strategy, value, drv, env.find2))

\* the text strategy after its first xpath lookup missed
text_retry(first, kb, hide, env) ==
    IF ~kb.shown THEN NotFound(<<first>> \o kb.calls)
    ELSE [st |-> "ok", exc |-> "", elem |-> env.find2 = "hit",
          calls |-> <<first>> \o kb.calls \o hide
                    \o <<C("time.sleep"), [c |-> "find_element", ok |-> env.find2 = "hit"]>>]

\* the text strategy: an xpath lookup whose failures are all caught
find_by_text(drv, env) ==
    IF env.find1 = "hit" THEN Found(<<C("find_element")>>)
    ELSE text_retry(F("find_element"), is_keyboard_shown(drv, env),
                    hide_keyboard(drv, env), env)

\* What _resolve_element gave: a lookup's result f, with action.metadata as
\* the call leaves it, and whether current_nodes was read
Resolved(f, meta, indexed) ==
    [st |-> f.st, exc |-> f.exc, elem |-> f.elem, calls |-> f.calls, meta |-> meta,
     indexed |-> indexed]

\* the node_index strategy for the node with locator inferred and bounds
\* centre coords
resolve_node(meta, inferred, coords, drv, env) ==
    IF inferred.strategy # ""
    THEN Resolved(find_with_retry(inferred.strategy, inferred.value, drv, env), meta, TRUE)
    ELSE IF Truthy(coords)
    THEN Resolved(NotFound(<<>>), MetaSetDefault(meta, "fallback_coordinates", coords), TRUE)
    ELSE Resolved(NotFound(<<>>), meta, TRUE)

\* the node_index strategy, n the position _node_from_index gave
resolve_index(meta, nodes, n, drv, env) ==
    IF n = 0 THEN Resolved(NotFound(<<>>), meta, TRUE)
    ELSE resolve_node(meta, preferred_locator(nodes[n]), center_of_bounds(nodes[n].bounds),
                      drv, env)

\* AppiumBridge._resolve_element
resolve_element(a, nodes, drv, env) ==
    IF drv = 0 THEN Resolved(NotFound(<<>>), a.metadata, FALSE)
    ELSE IF a.locator.strategy = "coordinates"
    THEN Resolved(NotFound(<<>>), a.metadata, FALSE)
    ELSE IF a.locator.strategy = "node_index"
    THEN resolve_index(a.metadata, nodes, node_from_index(a.locator.value, nodes), drv, env)
    ELSE IF a.locator.strategy = "text"
    THEN Resolved(find_by_text(drv, env), a.metadata, FALSE)
    ELSE Resolved(find_with_retry(a.locator.strategy, a.locator.value, drv, env),
                  a.metadata, FALSE)

(* --------------------------- action helpers ---------------------------- *)
\* What one handler did: st is "ok" or "raise" (with the exception's type in
\* exc), calls the driver calls and sleeps it made in order, meta the
\* action's metadata afterwards, indexed whether it read current_nodes.
Done(r, calls) ==
    [st |-> "ok", exc |-> "", calls |-> r.calls \o calls, meta |-> r.meta,
     indexed |-> r.indexed]

Raised(r, e, calls) ==
    [st |-> "raise", exc |-> e, calls |-> r.calls \o calls, meta |-> r.meta,
     indexed |-> r.indexed]

\* a driver or element call that the device lets succeed or fail
Call(r, name, answer) ==
    IF answer = "ok" THEN Done(r, <<C(name)>>)
    ELSE Raised(r, "WebDriverException", <<F(name)>>)

\* the gesture actions.perform() at coords, which the device lets succeed
\* or fail
Gesture(r, coords, answer) ==
    IF answer = "ok" THEN Done(r, <<[c |-> "perform", ok |-> TRUE, at |-> coords]>>)
    ELSE Raised(r, "WebDriverException", <<[c |-> "perform", ok |-> FALSE, at |-> coords]>>)

\* a handler that has not resolved anything
Start(a) == Resolved(NotFound(<<>>), a.metadata, FALSE)

\* the fallback of a missing coords: metadata["fallback_coordinates"]
or_fallback(coords, meta) ==
    IF coords.k = "none" /\ MetaTruthy(meta)
    THEN parse_coordinates(MetaGet(meta, "fallback_coordinates", PyNone))
    ELSE coords

\* coordinates from action.value, else from metadata["fallback_coordinates"]
value_or_fallback(value, meta) == or_fallback(parse_coordinates(value), meta)

\* int(action.metadata.get("duration_ms", default)) if action.metadata else default
duration_ms(meta, default) ==
    IF MetaTruthy(meta) THEN ToInt(MetaGet(meta, "duration_ms", PyInt(default)))
    ELSE [ok |-> TRUE, n |-> default, exc |-> ""]

\* _tap without an element: the gesture at coords, or nothing
tap_at(r, coords, drv, env) ==
    IF coords.k = "raise" THEN Raised(r, coords.exc, <<>>)
    ELSE IF coords.k = "coords" /\ drv # 0 THEN Gesture(r, coords, env.gesture)
    ELSE Done(r, <<>>)

\* _tap after _resolve_element gave r
tap_resolved(a, r, drv, env) ==
    IF r.st = "raise" THEN Raised(r, r.exc, <<>>)
    ELSE IF r.elem THEN Call(r, "click", env.elem)
    ELSE tap_at(r, value_or_fallback(a.value, r.meta), drv, env)

\* AppiumBridge._tap
tap(a, nodes, drv, env) == tap_resolved(a, resolve_element(a, nodes, drv, env), drv, env)

\* an _input that hides the keyboard whatever the metadata says
input_hide_always(a, sent, drv, env) ==
    IF sent.st = "raise" THEN sent
    ELSE Done(sent, <<C("time.sleep")>> \o hide_keyboard(drv, env))

\* _input after element.clear() and send_keys: the keyboard is hidden
\* unless metadata says not to
input_hide(a, sent, drv, env) ==
    IF sent.st = "raise" THEN sent
    ELSE IF Truthy(IF MetaTruthy(a.metadata)
                   THEN MetaGet(a.metadata, "auto_hide_keyboard", PyBool(TRUE))
                   ELSE PyBool(TRUE))
    THEN Done(sent, <<C("time.sleep")>> \o hide_keyboard(drv, env))
    ELSE sent

\* _input after element.clear()
input_send(a, cleared, drv, env) ==
    IF cleared.st = "raise" THEN cleared
    ELSE IF Truthy(a.value) THEN input_hide(a, Call(cleared, "send_keys", env.elem), drv, env)
    ELSE input_hide(a, cleared, drv, env)

\* _input once the element is settled: r with the fallback lookups made
input_element(a, found, element, drv, env) ==
    IF ~element THEN Raised(found, "RuntimeError", <<>>)
    ELSE input_send(a, Call(found, "clear", env.elem), drv, env)

\* the lookups _input makes when _resolve_element found nothing: the
\* focused element, else the first EditText
input_fallback(r, drv, env) ==
    IF r.elem \/ drv = 0 THEN <<>>
    ELSE IF env.active = "hit" THEN <<C("active_element")>>
    ELSE <<F("active_element"), [c |-> "find_edit_text", ok |-> env.edit = "hit"]>>

\* _input after _resolve_element gave r
input_resolved(a, r, drv, env) ==
    IF r.st = "raise" THEN Raised(r, r.exc, <<>>)
    ELSE input_element(a, Done(r, input_fallback(r, drv, env)),
                       r.elem \/ (drv # 0 /\ (env.active = "hit" \/ env.edit = "hit")),
                       drv, env)

\* AppiumBridge._input
input(a, nodes, drv, env) ==
    input_resolved(a, resolve_element(a, nodes, drv, env), drv, env)

\* an _assert_text that compares the strings as they are, untrimmed
assert_compare_untrimmed(r, expected, actual, env) ==
    IF expected.t # "str" THEN Raised(r, "AttributeError", <<>>)
    ELSE IF env.elem # "ok" THEN Raised(r, "WebDriverException", <<F("text")>>)
    ELSE IF actual.t # "str" THEN Raised(r, "AttributeError", <<C("text")>>)
    ELSE IF ~IsSubstr(expected.s, actual.s)
    THEN Raised(r, "AssertionError", <<C("text")>>)
    ELSE Done(r, <<C("text")>>)

\* _assert_text with the element found: expected against its text
assert_compare(r, expected, actual, env) ==
    IF expected.t # "str" THEN Raised(r, "AttributeError", <<>>)
    ELSE IF env.elem # "ok" THEN Raised(r, "WebDriverException", <<F("text")>>)
    ELSE IF actual.t # "str" THEN Raised(r, "AttributeError", <<C("text")>>)
    ELSE IF ~IsSubstr(Strip(expected.s), Strip(actual.s))
    THEN Raised(r, "AssertionError", <<C("text")>>)
    ELSE Done(r, <<C("text")>>)

\* _assert_text after _resolve_element gave r
assert_resolved(a, r, env) ==
    IF r.st = "raise" THEN Raised(r, r.exc, <<>>)
    ELSE IF ~r.elem THEN Raised(r, "AssertionError", <<>>)
    ELSE assert_compare(r, IF Truthy(a.value) THEN a.value ELSE PyStr(<<>>),
                        IF Truthy(env.text) THEN env.text ELSE PyStr(<<>>), env)

\* AppiumBridge._assert_text
assert_text(a, nodes, drv, env) ==
    assert_resolved(a, resolve_element(a, nodes, drv, env), env)

\* _swipe with both ends parsed and the duration read
swipe_between(r, start, end, duration, env) ==
    IF start.k = "raise" THEN Raised(r, start.exc, <<>>)
    ELSE IF end.k = "raise" THEN Raised(r, end.exc, <<>>)
    ELSE IF ~duration.ok THEN Raised(r, duration.exc, <<>>)
    ELSE IF start.k = "none" \/ end.k = "none" THEN Done(r, <<>>)
    ELSE Gesture(r, start, env.gesture)

\* AppiumBridge._swipe
swipe(a, drv, env) ==
    IF drv = 0 THEN Done(Start(a), <<>>)
    ELSE swipe_between(Start(a), parse_coordinates(a.value),
                       IF MetaTruthy(a.metadata)
                       THEN parse_coordinates(MetaGet(a.metadata, "end", PyNone))
                       ELSE NoCoords,
                       duration_ms(a.metadata, 400), env)

\* _long_press on the element: its location and size, then the gesture
press_element(located, env) ==
    IF located.st = "raise" THEN located
    ELSE IF env.elem # "ok" THEN Raised(located, "WebDriverException", <<F("size")>>)
    ELSE Call(located, "perform", env.gesture)

\* a _long_press that raises when it has neither element nor coordinates
press_resolved_strict(r, duration, coords, env) ==
    IF r.st = "raise" THEN Raised(r, r.exc, <<>>)
    ELSE IF ~duration.ok THEN Raised(r, duration.exc, <<>>)
    ELSE IF r.elem THEN press_element(Call(r, "location", env.elem), env)
    ELSE IF coords.k = "raise" THEN Raised(r, coords.exc, <<>>)
    ELSE IF coords.k = "none" THEN Raised(r, "RuntimeError", <<>>)
    ELSE Gesture(r, coords, env.gesture)

\* _long_press after _resolve_element gave r
press_resolved(r, duration, coords, env) ==
    IF r.st = "raise" THEN Raised(r, r.exc, <<>>)
    ELSE IF ~duration.ok THEN Raised(r, duration.exc, <<>>)
    ELSE IF r.elem THEN press_element(Call(r, "location", env.elem), env)
    ELSE IF coords.k = "raise" THEN Raised(r, coords.exc, <<>>)
    ELSE IF coords.k = "none" THEN Done(r, <<>>)
    ELSE Gesture(r, coords, env.gesture)

\* the coordinates _long_press falls back to
press_coords(a, r) == value_or_fallback(a.value, r.meta)

\* AppiumBridge._long_press
long_press(a, nodes, drv, env) ==
    IF drv = 0 THEN Done(Start(a), <<>>)
    ELSE press_resolved(resolve_element(a, nodes, drv, env), duration_ms(a.metadata, 1000),
                        press_coords(a, resolve_element(a, nodes, drv, env)), env)

\* AppiumBridge._back
back(a, drv, env) ==
    IF drv = 0 THEN Done(Start(a), <<>>) ELSE Call(Start(a), "back", env.gesture)

\* the gesture of a scroll once the window size is read
scroll_gesture(sized, env) ==
    IF sized.st = "raise" THEN sized ELSE Call(sized, "perform", env.gesture)

\* AppiumBridge._scroll_down and AppiumBridge._scroll_up: the window size,
\* then one gesture
scroll(a, drv, env) ==
    IF drv = 0 THEN Done(Start(a), <<>>)
    ELSE scroll_gesture(Call(Start(a), "get_window_size", env.gesture), env)

\* time.sleep(duration): a negative duration is a ValueError
sleep_for(a, d) ==
    IF ~d.ok THEN Raised(Start(a), d.exc, <<>>)
    ELSE IF d.n < 0 THEN Raised(Start(a), "ValueError", <<>>)
    ELSE Done(Start(a), <<C("time.sleep")>>)

\* the wait branch of _execute_plan: float(action.value or 1.0), then
\* time.sleep. The strings of the model hold no '.', 'e', "inf" or "nan",
\* so float(s) succeeds exactly when int(s) does.
wait(a) == sleep_for(a, ToInt(IF Truthy(a.value) THEN a.value ELSE PyInt(1)))

\* a hide_keyboard branch that lets the failure of the driver's call through
hide_keyboard_action_strict(a, drv, env) ==
    IF drv # 0 /\ env.hide # "ok"
    THEN Raised(Start(a), "WebDriverException", hide_keyboard(drv, env))
    ELSE Done(Start(a), hide_keyboard(drv, env))

\* the hide_keyboard branch of _execute_plan: self._hide_keyboard()
hide_keyboard_action(a, drv, env) == Done(Start(a), hide_keyboard(drv, env))

Vocabulary ==
    {"tap", "input_text", "wait", "assert_text", "swipe", "long_press", "back",
     "hide_keyboard", "scroll_down", "scroll_up"}

\* the dispatch of _execute_plan for one action
dispatch(a, nodes, drv, env) ==
    CASE a.name = "tap" -> tap(a, nodes, drv, env)
      [] a.name = "input_text" -> input(a, nodes, drv, env)
      [] a.name = "wait" -> wait(a)
      [] a.name = "assert_text" -> assert_text(a, nodes, drv, env)
      [] a.name = "swipe" -> swipe(a, drv, env)
      [] a.name = "long_press" -> long_press(a, nodes, drv, env)
      [] a.name = "back" -> back(a, drv, env)
      [] a.name = "hide_keyboard" -> hide_keyboard_action(a, drv, env)
      [] a.name = "scroll_down" -> scroll(a, drv, env)
      [] a.name = "scroll_up" -> scroll(a, drv, env)
      [] OTHER -> [Done(Start(a), <<>>) EXCEPT !.st = "skip"]

(* ------------------------------- inputs -------------------------------- *)
NoLocator == [strategy |-> "", value |-> PyNone]

\* PlannedAction(name, locator, value, metadata)
PlannedAction(name, locator, value, metadata) ==
    [name |-> name, locator |-> locator, value |-> value, metadata |-> metadata]

\* PlannedAction.describe(): the text of an action in a ledger record
describe(a) == [name |-> a.name, locator |-> a.locator, value |-> a.value]

Node(text, desc, id, bounds) ==
    [text |-> text, content_desc |-> desc, resource_id |-> id,
     class_name |-> <<"V">>, bounds |-> bounds]

\* NodeSnapshot(text, content_desc, resource_id, class_name, bounds); the
\* package, which nothing reads, is left out
Snapshot(text, desc, id, cls, bounds) ==
    [text |-> text, content_desc |-> desc, resource_id |-> id,
     class_name |-> cls, bounds |-> bounds]

\* a node with a resource id, a node with text only, a node with nothing
\* to derive a locator from
NodeWithId == Node(<<"o", "k">>, <<>>, <<"b">>, <<0, 0, 10, 20>>)
NodeTextOnly == Node(<<"g", "o">>, <<>>, <<>>, <<10, 0, 20, 20>>)
NodeBare == Node(<<>>, <<>>, <<>>, <<0, 20, 30, 40>>)
\* a node with nothing to derive a locator from and unknown bounds
NodeZero == Node(<<>>, <<>>, <<>>, <<0, 0, 0, 0>>)

(* ---------------------------- node parsing ----------------------------- *)
\* An XML payload is what ET.fromstring makes of it: wellformed FALSE for a
\* text it rejects with ParseError (the empty text among them), else the
\* attribute dicts of its elements in document order. The bounds attribute
\* is [form |-> "brackets", v |-> <<a, b, c, d>>] for a text in which
\* BOUNDS_PATTERN finds "[a,b][c,d]", and [form |-> "other"] for any other.
\* _parse_bounds
parse_bounds(raw) == IF raw.form = "brackets" THEN raw.v ELSE <<0, 0, 0, 0>>

\* the NodeSnapshot parse_xml makes of one element's attributes
SnapshotOf(attrib) ==
    Snapshot(MetaGet(attrib, "text", <<>>), MetaGet(attrib, "content-desc", <<>>),
             MetaGet(attrib, "resource-id", <<>>), MetaGet(attrib, "class", <<>>),
             parse_bounds(MetaGet(attrib, "bounds", [form |-> "other"])))

\* the snapshots of the elements that have attributes, in order
RECURSIVE SnapshotsOf(_)
SnapshotsOf(elements) ==
    IF elements = <<>> THEN <<>>
    ELSE IF DOMAIN Head(elements) = {} THEN SnapshotsOf(Tail(elements))
    ELSE <<SnapshotOf(Head(elements))>> \o SnapshotsOf(Tail(elements))

\* a parse_xml that lets the ParseError of a rejected text through
parse_xml_strict(payload) ==
    IF ~payload.wellformed THEN [k |-> "raise", exc |-> "ParseError"]
    ELSE [k |-> "nodes", nodes |-> SnapshotsOf(payload.elements)]

\* NodeParser.parse_xml
parse_xml(payload) ==
    IF ~payload.wellformed THEN [k |-> "nodes", nodes |-> <<>>]
    ELSE [k |-> "nodes", nodes |-> SnapshotsOf(payload.elements)]

\* A dump payload is the sequence of its lines, each stripped and split
\* into head, the prefix parse_accessibility_dump tests with startswith
\* ("" for a line that starts with none of them), rest, the stripped text
\* after the first colon, and ints, the integers re.findall reads from it.
Boundaries == {"View[", "AccessibilityNodeInfo["}

\* _parse_bounds_from_dump
parse_bounds_from_dump(ints) ==
    IF Len(ints) >= 4 THEN SubSeq(ints, 1, 4) ELSE <<0, 0, 0, 0>>

\* the node current after one more line that is no boundary
WithLine(current, line) ==
    CASE line.head = "text:" -> [current EXCEPT !.text = line.rest]
      [] line.head = "contentDescription:" -> [current EXCEPT !.content_desc = line.rest]
      [] line.head = "resourceName:" -> [current EXCEPT !.resource_id = line.rest]
      [] line.head = "className:" -> [current EXCEPT !.class_name = line.rest]
      [] line.head = "boundsInScreen:" ->
            [current EXCEPT !.bounds = parse_bounds_from_dump(line.ints)]
      [] OTHER -> current

\* the loop of parse_accessibility_dump: some is whether a node is in
\* progress, current that node
RECURSIVE DumpLoop(_, _, _)
DumpLoop(lines, some, current) ==
    IF lines = <<>> THEN (IF some THEN <<current>> ELSE <<>>)
    ELSE IF Head(lines).head \in Boundaries
    THEN (IF some THEN <<current>> ELSE <<>>)
         \o DumpLoop(Tail(lines), TRUE, Snapshot(<<>>, <<>>, <<>>, <<>>, <<0, 0, 0, 0>>))
    ELSE IF ~some THEN DumpLoop(Tail(lines), FALSE, current)
    ELSE DumpLoop(Tail(lines), TRUE, WithLine(current, Head(lines)))

\* a parse_accessibility_dump that has a node in progress before the first
\* boundary
parse_accessibility_dump_open(payload) ==
    [k |-> "nodes",
     nodes |-> DumpLoop(payload, TRUE, Snapshot(<<>>, <<>>, <<>>, <<>>, <<0, 0, 0, 0>>))]

\* NodeParser.parse_accessibility_dump
parse_accessibility_dump(payload) ==
    [k |-> "nodes",
     nodes |-> DumpLoop(payload, FALSE, Snapshot(<<>>, <<>>, <<>>, <<>>, <<0, 0, 0, 0>>))]

\* the node lists a snapshot acquisition can produce
ScreenPool == {<<>>, <<NodeWithId, NodeBare, NodeTextOnly, NodeZero>>}

\* the actions the planner chooses from
PlannerActions ==
    { PlannedAction("tap", [strategy |-> "node_index", value |-> PyInt(1)], PyNone, EmptyMeta),
      PlannedAction("back", NoLocator, PyNone, EmptyMeta),
      PlannedAction("noop", NoLocator, PyNone, EmptyMeta) }

RECURSIVE SeqsUpTo(_, _)
SeqsUpTo(S, n) ==
    IF n = 0 THEN {<<>>}
    ELSE LET shorter == SeqsUpTo(S, n - 1)
         IN  shorter \cup {Append(q, x) : q \in shorter, x \in S}

\* PlanResponse(actions, request_refresh): every plan of at most n actions
Plans(n) == [actions : SeqsUpTo(PlannerActions, n), request_refresh : BOOLEAN]

\* the errors a connection attempt can fail with
Errors == {"E1", "E2"}

\* the platformName values of the configurations modelled: a supported
\* one and an unsupported one ("ios" differs from "android" in the class
\* of the options object only)
Platforms == {"android", "windows"}

\* the device's answers that matter to action a; the others are fixed
EnvFor(a) ==
    LET resolves == a.name \in {"tap", "input_text", "assert_text", "long_press"}
        both(yes, x, y) == IF yes THEN {x, y} ELSE {x}
    IN  [find1 : both(resolves, "hit", "miss"),
         find2 : both(resolves, "hit", "miss"),
         kbd : IF resolves THEN {"shown", "hidden", "error"} ELSE {"hidden"},
         hide : both(resolves \/ a.name = "hide_keyboard", "ok", "error"),
         active : both(a.name = "input_text", "hit", "error"),
         edit : both(a.name = "input_text", "hit", "miss"),
         elem : both(resolves, "ok", "error"),
         gesture : both(a.name \in {"tap", "swipe", "long_press", "back",
                                     "scroll_down", "scroll_up"}, "ok", "error"),
         text : IF a.name = "assert_text"
                THEN {PyNone, PyStr(<<"o", "k">>), PyStr(<<" ", "n", "o">>)}
                ELSE {PyNone}]

\* a device on which every call succeeds and no keyboard is shown
Calm ==
    [find1 |-> "hit", find2 |-> "hit", kbd |-> "hidden", hide |-> "ok", active |-> "hit",
     edit |-> "hit", elem |-> "ok", gesture |-> "ok", text |-> PyNone]

VARIABLES
    platform,          \* config.capabilities["platformName"].lower()
    use_accessibility_dump, \* config.use_accessibility_dump
    driver,            \* self.driver: 0 is None, n > 0 the session n
    current_nodes,     \* self.current_nodes: [snap, nodes], snap the number of the
                       \* acquisition in the running call (0: an earlier call's)
    open,              \* sessions created by webdriver.Remote and not quit
    nextSession,       \* id the next created session gets
    ncalls,            \* calls made on the bridge so far
    planned,           \* actions the planner has returned so far
    pc,                \* position of the running call; "idle" between calls
    op,                \* the running (or last) call: "run", "connect", "disconnect"
    max_retries, attempt, last_error,          \* connect's arguments and locals
    probe,             \* the liveness probe of this call: "none", "ok", "stale"
    tries,             \* what each webdriver.Remote call of this connect() gave
    sleeps,            \* time.sleep(retry_delay) calls of this connect()
    max_turns, turn, history, executed_actions,           \* run_instruction's frame
    plan, idx, logs,                                      \* _execute_plan's frame
    calls,             \* the driver calls of the running step sequence: [i, c, ok],
                       \* i the position in the plan of the action that made it
    history_text,      \* the history text of the latest prompt
    batches,           \* _execute_plan calls made by the running run_instruction
    attempted,         \* the actions the running run_instruction has dispatched
    snaps,             \* collect_nodes calls that returned, in the running call
    planSnap,          \* the snapshot the latest plan was produced from
    resolveSnap,       \* the snapshot the latest node_index lookup read
    outcome,           \* "none", "running", "returned" or "raised"
    exc,               \* the type of the exception raised
    cause,             \* the raised exception's __cause__
    site,              \* what raised: "connect", "collect", "plan", "action", "quit"
    result,            \* the value returned
    prev,              \* at the start of the running call: [aborted, driver, nextSession]
    device,            \* the device's answers, where they are fixed before the action
    acquisitions,      \* what each collect_nodes() call made on the bridge itself
                       \* tried and returned: [tried, nodes]
    applied,           \* a function of the package applied on its own: [fn, arg, ret]
    bridge             \* the global bridge of server.py: "none", or "made" once
                       \* get_bridge or setup_appium_connection has assigned it

connectVars == <<max_retries, attempt, last_error, probe, tries, sleeps>>
runVars == <<max_turns, turn, history, executed_actions, history_text, batches, snaps,
             planSnap, attempted>>
execVars == <<plan, idx, logs, calls, resolveSnap>>
configVars == <<platform, use_accessibility_dump>>
fixedVars == <<configVars, device, acquisitions, applied, bridge>>
endVars == <<outcome, exc, cause, site, result>>
sessionVars == <<driver, open, nextSession>>
vars == <<fixedVars, sessionVars, current_nodes, ncalls, planned, pc, op,
          connectVars, runVars, execVars, endVars, prev>>

NoPlan == [actions |-> <<>>, request_refresh |-> FALSE]

\* no function is applied on its own
NoApplication == [fn |-> "none"]

\* the bridge as AppiumBridge(...) leaves it
Constructed ==
    /\ platform \in Platforms
    /\ use_accessibility_dump \in BOOLEAN
    /\ driver = 0
    /\ current_nodes = [snap |-> 0, nodes |-> <<>>]
    /\ open = {}
    /\ nextSession = 1
    /\ ncalls = 0
    /\ planned = 0
    /\ pc = "idle"
    /\ op = "none"
    /\ max_retries = DefaultMaxRetries
    /\ attempt = 0 /\ last_error = "None"
    /\ probe = "none" /\ tries = <<>> /\ sleeps = 0
    /\ max_turns = 0 /\ turn = 0 /\ history = <<>> /\ executed_actions = <<>>
    /\ history_text = <<>>
    /\ batches = 0 /\ snaps = 0 /\ planSnap = 0 /\ resolveSnap = 0 /\ attempted = <<>>
    /\ plan = NoPlan /\ idx = 0 /\ logs = <<>> /\ calls = <<>>
    /\ outcome = "none" /\ exc = "" /\ cause = "None" /\ site = "" /\ result = <<>>
    /\ prev = [aborted |-> FALSE, driver |-> 0, nextSession |-> 1]
    /\ acquisitions = <<>>
    /\ bridge = "none"

Init ==
    /\ Constructed
    /\ device = Calm
    /\ applied = NoApplication

(* ------------------------------ call ends ------------------------------ *)
\* the running call returns value
Return(value) ==
    /\ pc' = "idle"
    /\ outcome' = "returned"
    /\ exc' = "" /\ cause' = "None" /\ site' = ""
    /\ result' = value

\* the running call raises an exception of type e (its __cause__ from) out
\* of the code at
Raise(e, from, at) ==
    /\ pc' = "idle"
    /\ outcome' = "raised"
    /\ exc' = e /\ cause' = from /\ site' = at
    /\ result' = <<>>

\* the last call was a run_instruction that an action's exception ended
Aborted == op = "run" /\ outcome = "raised" /\ site = "action"

\* a call starts on a bridge whose node collection is nodes: the locals of
\* the last call are gone
BeginOn(name, retries, turns, nodes) ==
    /\ pc = "idle"
    /\ ncalls < MaxCalls
    /\ ncalls' = ncalls + 1
    /\ op' = name
    /\ max_retries' = retries
    /\ attempt' = 0 /\ last_error' = "None"
    /\ probe' = "none" /\ tries' = <<>> /\ sleeps' = 0
    /\ max_turns' = turns /\ turn' = 0 /\ history' = <<>> /\ executed_actions' = <<>>
    /\ history_text' = <<>>
    /\ batches' = 0 /\ snaps' = 0 /\ planSnap' = 0 /\ resolveSnap' = 0
    /\ attempted' = <<>>
    /\ plan' = NoPlan /\ idx' = 0 /\ logs' = <<>>
    /\ prev' = [aborted |-> Aborted, driver |-> driver, nextSession |-> nextSession]
    /\ current_nodes' = [snap |-> 0, nodes |-> nodes]
    /\ UNCHANGED <<configVars, device, acquisitions, applied, planned>>

\* a call starts on the bridge
Begin(name, retries, turns) ==
    /\ BeginOn(name, retries, turns, current_nodes.nodes)
    /\ UNCHANGED bridge

\* connect() is entered on a bridge whose node collection is nodes
EnterOn(name, retries, turns, nodes) ==
    /\ BeginOn(name, retries, turns, nodes)
    /\ pc' = "connect"
    /\ calls' = <<>>
    /\ outcome' = "running" /\ exc' = "" /\ cause' = "None" /\ site' = "" /\ result' = <<>>

\* connect() is entered, by its caller or as the first line of run_instruction
Enter(name, retries, turns) ==
    /\ EnterOn(name, retries, turns, current_nodes.nodes)
    /\ UNCHANGED <<sessionVars, bridge>>

\* bridge.run_instruction(request, max_turns): it starts with self.connect()
CallRunInstruction ==
    \E mt \in 0..MaxTurns : Enter("run", DefaultMaxRetries, mt)

\* bridge.connect(max_retries)
CallConnect ==
    \E mr \in 0..MaxRetriesArg : Enter("connect", mr, 0)

(* ------------------------------- connect ------------------------------- *)
\* the tools of server.py that go on after connect() has returned
ToolsAfterConnect == {"get_screen_elements", "execute_action"}

\* connect() returns: to its caller, or on into run_instruction or into the
\* tool that called it
ConnectReturns ==
    IF op = "run"
    THEN pc' = "collect" /\ UNCHANGED endVars
    ELSE IF op \in ToolsAfterConnect
    THEN pc' = "tool" /\ UNCHANGED endVars
    ELSE Return(<<>>)

\* a connect() that goes on to connect after a probe that succeeded
ReuseFallsThrough == FALSE

\* the return after a probe that succeeded
ReuseReturns == TRUE

\* the existing session answers the probe: it is kept
ConnectReuse ==
    /\ pc = "connect"
    /\ driver # 0
    /\ probe' = "ok"
    /\ IF ReuseReturns THEN ConnectReturns ELSE pc' = "options" /\ UNCHANGED endVars
    /\ UNCHANGED <<fixedVars, sessionVars, current_nodes, ncalls, planned, op,
                   max_retries, attempt, last_error, tries, sleeps,
                   runVars, execVars, prev>>

\* a connect() that keeps the handle of a session whose probe failed
DiscardedKept(handle) == handle

\* self.driver = None after a probe that failed
Discarded(handle) == 0

\* the probe raises: quit() is tried (its failure ignored), the handle dropped
ConnectDiscard ==
    /\ pc = "connect"
    /\ driver # 0
    /\ probe' = "stale"
    /\ \E quit_ok \in BOOLEAN :
          /\ open' = IF quit_ok THEN open \ {driver} ELSE open
          /\ calls' = Append(calls, [i |-> 0, c |-> "quit", ok |-> quit_ok])
    /\ driver' = Discarded(driver)
    /\ pc' = "options"
    /\ UNCHANGED <<fixedVars, nextSession, current_nodes, ncalls, planned, op,
                   max_retries, attempt, last_error, tries, sleeps,
                   runVars, plan, idx, logs, resolveSnap, endVars, prev>>

\* no session is held
ConnectFresh ==
    /\ pc = "connect"
    /\ driver = 0
    /\ pc' = "options"
    /\ UNCHANGED <<fixedVars, sessionVars, current_nodes, ncalls, planned, op, connectVars,
                   runVars, execVars, endVars, prev>>

\* the options object for the platform, or ValueError
ConnectOptions ==
    /\ pc = "options"
    /\ IF platform \in {"android", "ios"}
       THEN pc' = "attempt" /\ UNCHANGED endVars
       ELSE Raise("ValueError", "None", "connect")
    /\ UNCHANGED <<fixedVars, sessionVars, current_nodes, ncalls, planned, op, connectVars,
                   runVars, execVars, prev>>

\* for attempt in range(max_retries)
MoreAttempts == attempt < max_retries

\* a retry loop that sleeps after every failed attempt
SleepsAfterEvery(failed) == TRUE

\* if attempt < max_retries - 1: time.sleep(retry_delay)
SleepsAfter(failed) == failed < max_retries - 1

\* one pass of the retry loop: webdriver.Remote(...) answers r
ConnectAttempt ==
    /\ pc = "attempt"
    /\ MoreAttempts
    /\ \E r \in {"ok"} \cup Errors :
          /\ tries' = Append(tries, r)
          /\ IF r = "ok"
             THEN /\ driver' = nextSession
                  /\ nextSession' = nextSession + 1
                  /\ open' = open \cup {nextSession}
                  /\ ConnectReturns
                  /\ UNCHANGED <<attempt, sleeps, last_error>>
             ELSE /\ last_error' = r
                  /\ sleeps' = IF SleepsAfter(attempt) THEN sleeps + 1 ELSE sleeps
                  /\ attempt' = attempt + 1
                  /\ UNCHANGED <<sessionVars, pc, endVars>>
    /\ UNCHANGED <<fixedVars, current_nodes, ncalls, planned, op, max_retries, probe,
                   runVars, execVars, prev>>

\* the loop is over: raise RuntimeError(...) from last_error
ConnectExhausted ==
    /\ pc = "attempt"
    /\ ~MoreAttempts
    /\ Raise("RuntimeError", last_error, "connect")
    /\ UNCHANGED <<fixedVars, sessionVars, current_nodes, ncalls, planned, op, connectVars,
                   runVars, execVars, prev>>

\* bridge.disconnect(): nothing without a handle; else quit() succeeds, or
\* raises and leaves the handle
CallDisconnect ==
    /\ Begin("disconnect", max_retries, 0)
    /\ IF driver = 0
       THEN calls' = <<>> /\ Return(<<>>) /\ UNCHANGED <<driver, open>>
       ELSE \E quit_ok \in BOOLEAN :
               /\ calls' = <<[i |-> 0, c |-> "quit", ok |-> quit_ok]>>
               /\ IF quit_ok
                  THEN driver' = 0 /\ open' = open \ {driver} /\ Return(<<>>)
                  ELSE /\ UNCHANGED <<driver, open>>
                       /\ Raise("WebDriverException", "None", "quit")
    /\ UNCHANGED nextSession

(* ---------------------------- run_instruction -------------------------- *)
\* a collect_nodes that reads the tree source whatever the configuration
collect_nodes_tree_only(drv, dump, tree_ok, tree) ==
    IF drv = 0
    THEN [st |-> "raise", exc |-> "RuntimeError", nodes |-> <<>>, tried |-> <<>>]
    ELSE IF ~tree_ok
    THEN [st |-> "raise", exc |-> "WebDriverException", nodes |-> <<>>, tried |-> <<"tree">>]
    ELSE [st |-> "ok", exc |-> "", nodes |-> tree, tried |-> <<"tree">>]

\* AppiumBridge.collect_nodes, the dump parsing to dump and the tree source
\* answering tree (or failing): [st, exc, nodes, tried]
collect_nodes(drv, dump, tree_ok, tree) ==
    LET first == IF use_accessibility_dump THEN <<"dump">> ELSE <<>>
    IN  IF use_accessibility_dump /\ dump # <<>>
        THEN [st |-> "ok", exc |-> "", nodes |-> dump, tried |-> first]
        ELSE IF drv = 0
        THEN [st |-> "raise", exc |-> "RuntimeError", nodes |-> <<>>, tried |-> first]
        ELSE IF ~tree_ok
        THEN [st |-> "raise", exc |-> "WebDriverException", nodes |-> <<>>,
              tried |-> first \o <<"tree">>]
        ELSE [st |-> "ok", exc |-> "", nodes |-> tree, tried |-> first \o <<"tree">>]

\* self.current_nodes = self.collect_nodes(), then on to position next
Collected(got, next) ==
    IF got.st = "ok"
    THEN /\ snaps' = snaps + 1
         /\ current_nodes' = [snap |-> snaps + 1, nodes |-> got.nodes]
         /\ pc' = next
         /\ UNCHANGED endVars
    ELSE /\ Raise(got.exc, "None", "collect")
         /\ UNCHANGED <<snaps, current_nodes>>

Collect(next) ==
    \E dump \in ScreenPool, tree \in ScreenPool, tree_ok \in BOOLEAN :
        Collected(collect_nodes(driver, dump, tree_ok, tree), next)

\* the snapshot taken before the first turn
CollectInitial ==
    /\ pc = "collect"
    /\ Collect("loop")
    \* connect's local variables are gone
    /\ attempt' = 0 /\ last_error' = "None" /\ tries' = <<>> /\ sleeps' = 0
    /\ UNCHANGED <<fixedVars, sessionVars, ncalls, planned, op, max_retries, probe, max_turns,
                   turn, history, executed_actions, history_text, batches, planSnap,
                   attempted, execVars, prev>>

\* a loop that runs one turn more than max_turns
TurnsLeftInclusive == turn <= max_turns

\* for turn in range(max_turns)
TurnsLeft == turn < max_turns

RECURSIVE Reverse(_)
Reverse(q) == IF q = <<>> THEN <<>> ELSE Append(Reverse(Tail(q)), Head(q))

\* a history text of the latest records, oldest first
HistoryTextOldestFirst(h) ==
    SubSeq(h, IF Len(h) > HistoryWindow THEN Len(h) - HistoryWindow + 1 ELSE 1, Len(h))

\* reversed(history[-6:])
HistoryText(h) ==
    Reverse(SubSeq(h, IF Len(h) > HistoryWindow THEN Len(h) - HistoryWindow + 1 ELSE 1,
                   Len(h)))

\* a prompt built from a snapshot taken for it and not kept
PlannedFromFresh == snaps + 1

\* the snapshot a plan made now is made from: summarize_nodes(self.current_nodes)
PlannedFrom == current_nodes.snap

\* one turn begins: the prompt, the planner's answer p, and _execute_plan's
\* entry check
Plan(p) ==
    /\ pc = "loop"
    /\ TurnsLeft
    /\ history_text' = HistoryText(history)
    /\ planSnap' = PlannedFrom
    /\ plan' = p /\ planned' = planned + Len(p.actions)
    /\ batches' = batches + 1
    /\ idx' = 1 /\ logs' = <<>> /\ calls' = <<>> /\ resolveSnap' = 0
    /\ IF driver = 0
       THEN Raise("RuntimeError", "None", "plan")
       ELSE pc' = "exec" /\ UNCHANGED endVars
    /\ UNCHANGED <<fixedVars, sessionVars, current_nodes, ncalls, op, connectVars,
                   max_turns, turn, history, executed_actions, snaps, attempted, prev>>

\* one turn begins, the planner answering with any plan within the budget
PlanTurn == \E p \in Plans(MaxActions - planned) : Plan(p)

\* llm.plan_actions raises (no credential, unreachable service, bad JSON)
PlannerRaises ==
    /\ pc = "loop"
    /\ TurnsLeft
    /\ history_text' = HistoryText(history)
    /\ Raise("PlannerError", "None", "plan")
    /\ UNCHANGED <<fixedVars, sessionVars, current_nodes, ncalls, planned, op, connectVars,
                   max_turns, turn, history, executed_actions, batches, snaps, planSnap,
                   attempted, execVars, prev>>

\* the loop has run max_turns times: return executed_actions
LoopExit ==
    /\ pc = "loop"
    /\ ~TurnsLeft
    /\ Return(executed_actions)
    /\ UNCHANGED <<fixedVars, sessionVars, current_nodes, ncalls, planned, op, connectVars,
                   runVars, execVars, prev>>

\* a ledger record
Record(kind, a, reason) == [kind |-> kind, action |-> describe(a), reason |-> reason]

\* a call made by the action at position i of the plan; a gesture keeps
\* the point it was made at
Stamp(call, i) ==
    IF "at" \in DOMAIN call
    THEN [i |-> i, c |-> call.c, ok |-> call.ok, at |-> call.at]
    ELSE [i |-> i, c |-> call.c, ok |-> call.ok]

\* records of an _execute_plan that notes nothing for an action outside
\* the vocabulary
LoggedUnlessSkipped(r, a) ==
    CASE r.st = "ok" -> Append(logs, Record("ok", a, ""))
      [] r.st = "skip" -> logs
      [] r.st = "raise" -> Append(logs, Record("error", a, r.exc))

\* the records of _execute_plan after the action a ended as r
Logged(r, a) ==
    CASE r.st = "ok" -> Append(logs, Record("ok", a, ""))
      [] r.st = "skip" -> Append(logs, Record("skip", a, ""))
      [] r.st = "raise" -> Append(logs, Record("error", a, r.exc))

\* history as an exception from _execute_plan leaves run_instruction: the
\* call never returns its records, and history.extend is not reached
HistoryOnRaise(newlogs) == history

\* an except clause that drops the session before it re-raises
SessionDropped(handle) == 0

\* self.driver after the except clause of _execute_plan: it logs, records
\* and re-raises, and nothing closes the session
SessionOnAbort(handle) == handle

\* a loop that goes on after an action that raised
GoesOnAlways(r) == TRUE

\* a loop that an action outside the vocabulary ends
GoesOnIfDone(r) == r.st = "ok"

\* whether the plan's loop goes on after an action that ended as r
GoesOn(r) == r.st # "raise"

\* handlers that take the node they resolve out of the collection
NodesAfterPop(r, nodes) == IF r.indexed /\ nodes # <<>> THEN Tail(nodes) ELSE nodes

\* self.current_nodes after a handler that did r: the handlers read the
\* collection (_node_from_index) and assign nothing to it or to its nodes
NodesAfter(r, nodes) == nodes

\* one pass of the loop of _execute_plan in which the handler of the action
\* at idx does r
Execute(r) ==
    /\ pc = "exec"
    /\ idx <= Len(plan.actions)
    /\ LET a == plan.actions[idx]
       IN  /\ plan' = [plan EXCEPT !.actions[idx].metadata = r.meta]
           /\ calls' = calls \o [k \in 1..Len(r.calls) |-> Stamp(r.calls[k], idx)]
           /\ resolveSnap' = IF r.indexed THEN current_nodes.snap ELSE resolveSnap
           /\ current_nodes' = [current_nodes EXCEPT !.nodes = NodesAfter(r, @)]
           /\ logs' = Logged(r, a)
           /\ attempted' = Append(attempted, plan'.actions[idx])
           /\ IF GoesOn(r)
              THEN /\ idx' = idx + 1
                   /\ UNCHANGED <<pc, endVars, history>>
              ELSE /\ Raise(r.exc, "None", "action")
                   /\ history' = HistoryOnRaise(logs')
                   /\ UNCHANGED idx
    /\ driver' = IF pc' = "idle" THEN SessionOnAbort(driver) ELSE driver
    /\ UNCHANGED <<fixedVars, open, nextSession, ncalls, planned, op,
                   connectVars, max_turns, turn, executed_actions, history_text, batches,
                   snaps, planSnap, prev>>

\* one pass of the loop of _execute_plan: the action at idx, on a device
\* that answers in any way
ExecAction ==
    /\ pc = "exec"
    /\ idx <= Len(plan.actions)
    /\ \E r \in {dispatch(plan.actions[idx], current_nodes.nodes, driver, env) :
                    env \in EnvFor(plan.actions[idx])} : Execute(r)

\* a ledger that puts the latest plan's actions first
ExtendLedgerFront(ledger, actions) == actions \o ledger

\* executed_actions.extend(plan.actions)
ExtendLedger(ledger, actions) == ledger \o actions

\* _execute_plan returned: extend history and the ledger, then stop or
\* take the next snapshot
TurnEnd ==
    /\ pc = "exec"
    /\ idx > Len(plan.actions)
    /\ history' = history \o logs
    /\ executed_actions' = ExtendLedger(executed_actions, plan.actions)
    /\ IF ~plan.request_refresh
       THEN /\ Return(executed_actions')
            /\ UNCHANGED <<turn, snaps, current_nodes>>
       ELSE /\ Collect("loop")
            /\ turn' = turn + 1
    /\ UNCHANGED <<fixedVars, sessionVars, ncalls, planned, op, connectVars, max_turns,
                   history_text, batches, planSnap, attempted, execVars, prev>>

Next ==
    \/ CallRunInstruction
    \/ CallConnect
    \/ CallDisconnect
    \/ ConnectReuse
    \/ ConnectDiscard
    \/ ConnectFresh
    \/ ConnectOptions
    \/ ConnectAttempt
    \/ ConnectExhausted
    \/ CollectInitial
    \/ PlanTurn
    \/ PlannerRaises
    \/ LoopExit
    \/ ExecAction
    \/ TurnEnd

Spec == Init /\ [][Next]_vars

(* --------------------- snapshot acquisitions: SpecCollect --------------- *)
\* bridge.connect(1)
CollectConnect == Enter("connect", 1, 0)

\* bridge.collect_nodes() called on the bridge itself, as the server's
\* get_screen_elements does: the nodes are returned, not kept
CallCollectNodes ==
    /\ pc = "idle"
    /\ Len(acquisitions) < MaxAcquisitions
    /\ op' = "collect"
    /\ \E dump \in ScreenPool, tree \in ScreenPool, tree_ok \in BOOLEAN :
          LET got == collect_nodes(driver, dump, tree_ok, tree)
          IN  /\ acquisitions' =
                    Append(acquisitions,
                           [tried |-> got.tried, st |-> got.st,
                            dump_nodes |-> IF use_accessibility_dump THEN Len(dump) ELSE 0,
                            from_dump |-> got.st = "ok" /\ got.tried = <<"dump">>
                                          /\ got.nodes = dump])
              /\ IF got.st = "ok"
                 THEN Return(<<>>)
                 ELSE Raise(got.exc, "None", "collect")
    /\ UNCHANGED <<configVars, device, applied, bridge, sessionVars, current_nodes, ncalls,
                   planned, connectVars, runVars, execVars, prev>>

CollectNext ==
    \/ CollectConnect
    \/ ConnectReuse
    \/ ConnectDiscard
    \/ ConnectFresh
    \/ ConnectOptions
    \/ ConnectAttempt
    \/ ConnectExhausted
    \/ CallCollectNodes

SpecCollect == Init /\ [][CollectNext]_vars

(* ------------------------- one long run: SpecLedger --------------------- *)
\* the first call on the bridge is run_instruction(request, LedgerTurns)
LedgerStart ==
    /\ ncalls = 0
    /\ Enter("run", DefaultMaxRetries, LedgerTurns)

\* the plans of a planner that returns one action at a time
LedgerPlans ==
    [actions : {<<a>> : a \in {b \in PlannerActions : b.name \in {"back", "noop"}}},
     request_refresh : BOOLEAN]

\* one turn begins, the planner answering with one action
LedgerPlan == \E p \in LedgerPlans : Plan(p)

LedgerNext ==
    \/ LedgerStart
    \/ ConnectFresh
    \/ ConnectOptions
    \/ ConnectAttempt
    \/ ConnectExhausted
    \/ CollectInitial
    \/ LedgerPlan
    \/ LoopExit
    \/ ExecAction
    \/ TurnEnd

SpecLedger == Init /\ [][LedgerNext]_vars

(* --------------------- one plan on one device: SpecAction --------------- *)
\* a one-key metadata dict
Meta1(key, v) == [k \in {key} |-> v]

\* a two-key metadata dict
Meta2(k1, v1, k2, v2) == [k \in {k1, k2} |-> IF k = k1 THEN v1 ELSE v2]

Loc(strategy, value) == [strategy |-> strategy, value |-> value]

\* the locators a planner gives: none, coordinates, a node index (of the
\* node with an id, the bare node, the text-only node, no node; as a
\* number, as a string, or missing), a text, an id, and a strategy
\* _find_element does not know
HandlerLocators ==
    { NoLocator,
      Loc("coordinates", PyStr(<<"5", ",", "6">>)),
      Loc("node_index", PyInt(1)),
      Loc("node_index", PyInt(2)),
      Loc("node_index", PyInt(3)),
      Loc("node_index", PyInt(4)),
      Loc("node_index", PyInt(9)),
      Loc("node_index", PyInt(0)),
      Loc("node_index", PyInt(0 - 1)),
      Loc("node_index", PyStr(<<"2">>)),
      Loc("node_index", PyStr(<<"x">>)),
      Loc("node_index", PyNone),
      Loc("text", PyStr(<<"o", "k">>)),
      Loc("id", PyStr(<<"b">>)),
      Loc("css", PyStr(<<"b">>)) }

\* the locators of the input_text and assert_text actions
ElementLocators ==
    {l \in HandlerLocators :
        \/ l.strategy \in {"", "text", "id"}
        \/ (l.strategy = "node_index" /\ l.value \in {PyInt(1), PyInt(2)})}

TapActions ==
    {PlannedAction("tap", l, v, m) :
        l \in HandlerLocators, v \in {PyNone, PyStr(<<"5", ",", "6">>)},
        m \in {EmptyMeta, Meta1("fallback_coordinates", PyStr(<<"8", ",", "9">>))}}

InputActions ==
    {PlannedAction("input_text", l, v, m) :
        l \in ElementLocators, v \in {PyNone, PyStr(<<"h", "i">>)},
        m \in {EmptyMeta, Meta1("auto_hide_keyboard", PyBool(FALSE))}}

AssertActions ==
    {PlannedAction("assert_text", l, v, EmptyMeta) :
        l \in ElementLocators,
        v \in {PyNone, PyStr(<<"o", "k">>), PyStr(<<" ", "k", " ">>), PyStr(<<"n", "o">>)}}

SwipeActions ==
    {PlannedAction("swipe", NoLocator, v, m) :
        v \in {PyNone, PyStr(<<"1", ",", "2">>), PyStr(<<"x">>), PyList(<<PyInt(7)>>),
               PyList(<<PyInt(1), PyInt(2)>>)},
        m \in {EmptyMeta, Meta1("end", PyStr(<<"3", ",", "4">>)), Meta1("end", PyStr(<<"x">>)),
               Meta1("duration_ms", PyStr(<<"z">>)),
               Meta2("end", PyStr(<<"3", ",", "4">>), "duration_ms", PyStr(<<"z">>))}}

LongPressActions ==
    {PlannedAction("long_press", l, v, m) :
        l \in {h \in HandlerLocators :
                  h.strategy \in {"", "text", "id"}
                  \/ (h.strategy = "node_index" /\ h.value \in {PyInt(2), PyInt(9)})},
        v \in {PyNone, PyStr(<<"5", ",", "6">>)},
        m \in {EmptyMeta, Meta1("duration_ms", PyStr(<<"z">>))}}

WaitActions ==
    {PlannedAction("wait", NoLocator, v, EmptyMeta) :
        v \in {PyNone, PyStr(<<"2">>), PyStr(<<"x">>)}}

BackAction == PlannedAction("back", NoLocator, PyNone, EmptyMeta)

HideAction == PlannedAction("hide_keyboard", NoLocator, PyNone, EmptyMeta)

\* an input_text and a tap that hide the keyboard on their way
HidingActions ==
    { PlannedAction("input_text", Loc("id", PyStr(<<"b">>)), PyStr(<<"h", "i">>), EmptyMeta),
      PlannedAction("tap", Loc("text", PyStr(<<"o", "k">>)), PyNone, EmptyMeta) }

HandlerActions ==
    TapActions \cup InputActions \cup AssertActions \cup SwipeActions \cup LongPressActions
    \cup WaitActions \cup {HideAction}

\* the plans of SpecAction: one action, or a swipe, long_press, wait,
\* hide_keyboard or keyboard-hiding action with a back after it
HandlerPlans ==
    {<<a>> : a \in HandlerActions}
    \cup {<<a, BackAction>> : a \in SwipeActions \cup LongPressActions \cup WaitActions
                                    \cup {HideAction} \cup HidingActions}

\* the devices of SpecAction: every way the calls of some action can go
Devices == UNION {EnvFor(a) : a \in HandlerActions}

\* an Android bridge without the accessibility dump, before a device that
\* answers as `device` says
ActionInit ==
    /\ Constructed
    /\ platform = "android"
    /\ ~use_accessibility_dump
    /\ device \in Devices
    /\ applied = NoApplication

\* the first call on the bridge is run_instruction(request, 1)
ActionStart ==
    /\ ncalls = 0
    /\ Enter("run", DefaultMaxRetries, 1)

\* the planner answers with one of HandlerPlans; the answers of the device
\* that the plan's first action never asks for are left at their defaults
HandlerPlan ==
    \E p \in HandlerPlans :
        /\ device \in EnvFor(p[1])
        /\ Plan([actions |-> p, request_refresh |-> FALSE])

\* one pass of the loop of _execute_plan: the action at idx, on the device
ExecOnDevice ==
    /\ pc = "exec"
    /\ idx <= Len(plan.actions)
    /\ Execute(dispatch(plan.actions[idx], current_nodes.nodes, driver, device))

ActionNext ==
    \/ ActionStart
    \/ ConnectFresh
    \/ ConnectOptions
    \/ ConnectAttempt
    \/ ConnectExhausted
    \/ CollectInitial
    \/ HandlerPlan
    \/ ExecOnDevice
    \/ TurnEnd

SpecAction == ActionInit /\ [][ActionNext]_vars

(* ------------------- functions on their own: SpecPure ------------------- *)
\* the result of an application that has not been made yet
Pending == [k |-> "pending"]

\* the decimal text of an integer
RECURSIVE NatStr(_)
NatStr(n) ==
    LET d == CHOOSE c \in Digits : DigitVal(c) = n % 10
    IN  IF n < 10 THEN <<d>> ELSE NatStr(n \div 10) \o <<d>>

IntStr(n) == IF n < 0 THEN <<"-">> \o NatStr(0 - n) ELSE NatStr(n)

\* the numbers of the coordinate inputs
CoordNumbers == {0, 7, 12, 0 - 3}

\* the three ways of writing the pair (x, y)
CommaForm(x, y) == PyStr(IntStr(x) \o <<",">> \o IntStr(y))
SpaceForm(x, y) == PyStr(IntStr(x) \o <<" ">> \o IntStr(y))
PairForm(x, y) == PyList(<<PyInt(x), PyInt(y)>>)

\* inputs of _parse_coordinates that hold fewer than two integers, or none
\* that can be read, and some that hold more
OddCoordinates ==
    { PyNone, PyStr(<<>>), PyStr(<<"x">>), PyStr(<<"7">>), PyStr(<<"7", ",">>),
      PyStr(<<",">>), PyStr(<<"a", ",", "b">>), PyStr(<<"7", ",", "a">>),
      PyStr(<<" ", "1", " ", ",", " ", "2", " ">>), PyStr(<<"1", ",", "2", ",", "3">>),
      PyList(<<>>), PyList(<<PyInt(7)>>), PyList(<<PyStr(<<"a">>), PyInt(1)>>),
      PyList(<<PyNone, PyInt(1)>>), PyList(<<PyStr(<<"4">>), PyStr(<<"5">>)>>),
      PyList(<<PyInt(1), PyInt(2), PyInt(3)>>) }

CoordinateInputs ==
    {CommaForm(x, y) : x \in CoordNumbers, y \in CoordNumbers}
    \cup {SpaceForm(x, y) : x \in CoordNumbers, y \in CoordNumbers}
    \cup {PairForm(x, y) : x \in CoordNumbers, y \in CoordNumbers}
    \cup OddCoordinates

\* an attribute dict of an element with text, resource-id, class and bounds
Attrib(text, id, bounds) ==
    [key \in {"text", "resource-id", "class", "bounds"} |->
        CASE key = "text" -> text
          [] key = "resource-id" -> id
          [] key = "class" -> <<"V">>
          [] key = "bounds" -> bounds]

Brackets(a, b, c, d) == [form |-> "brackets", v |-> <<a, b, c, d>>]

\* the page sources: two texts ET.fromstring rejects stand behind
\* XmlRejected (the empty one and any broken one), then a root without
\* attributes, and a hierarchy of four elements under such a root, the
\* last with a bounds text that BOUNDS_PATTERN does not match
XmlRejected == [wellformed |-> FALSE, elements |-> <<>>]
XmlBareRoot == [wellformed |-> TRUE, elements |-> <<EmptyMeta>>]
XmlScreen ==
    [wellformed |-> TRUE,
     elements |-> <<EmptyMeta,
                    Attrib(<<"o", "k">>, <<"b">>, Brackets(0, 0, 10, 20)),
                    Attrib(<<>>, <<>>, Brackets(0, 20, 30, 40)),
                    Attrib(<<"g", "o">>, <<>>, Brackets(10, 0, 20, 20)),
                    Attrib(<<>>, <<>>, [form |-> "other"])>>]

XmlPayloads == {XmlRejected, XmlBareRoot, XmlScreen}

Line(head, rest, ints) == [head |-> head, rest |-> rest, ints |-> ints]

\* the dumps: no output, lines without any node boundary, a boundary
\* alone, two nodes with their fields, and three nodes after a field line
\* that precedes every boundary, one of them without any line of its own
DumpPayloads ==
    { <<>>,
      <<Line("", <<"j">>, <<>>)>>,
      <<Line("text:", <<"o", "k">>, <<>>), Line("boundsInScreen:", <<>>, <<0, 0, 10, 20>>)>>,
      <<Line("View[", <<>>, <<>>)>>,
      <<Line("", <<"j">>, <<>>),
        Line("AccessibilityNodeInfo[", <<>>, <<>>),
        Line("text:", <<"o", "k">>, <<>>),
        Line("resourceName:", <<"b">>, <<>>),
        Line("className:", <<"V">>, <<>>),
        Line("", <<"j">>, <<7>>),
        Line("boundsInScreen:", <<>>, <<0, 0, 10, 20, 5>>),
        Line("View[", <<>>, <<1>>),
        Line("contentDescription:", <<"d">>, <<>>),
        Line("boundsInScreen:", <<>>, <<1, 2, 3>>)>>,
      <<Line("text:", <<"z">>, <<>>),
        Line("View[", <<>>, <<>>),
        Line("text:", <<"n", "o">>, <<>>),
        Line("", <<"j">>, <<>>),
        Line("text:", <<"o", "k">>, <<>>),
        Line("AccessibilityNodeInfo[", <<>>, <<>>),
        Line("View[", <<>>, <<>>),
        Line("resourceName:", <<"b">>, <<>>)>> }

(* --------------------- prompt and heuristic planner -------------------- *)
\* A Hangul syllable is one character, written as its romanisation in
\* braces: <<"{ip}", "{ryeok}">> is the word the planner reads as "input".
\* str.lower() of one character
Lower(c) ==
    CASE
         c = "A" -> "a" [] c = "B" -> "b" [] c = "C" -> "c" [] c = "D" -> "d"
      [] c = "E" -> "e" [] c = "F" -> "f" [] c = "G" -> "g" [] c = "H" -> "h"
      [] c = "I" -> "i" [] c = "J" -> "j" [] c = "K" -> "k" [] c = "L" -> "l"
      [] c = "M" -> "m" [] c = "N" -> "n" [] c = "O" -> "o" [] c = "P" -> "p"
      [] c = "Q" -> "q" [] c = "R" -> "r" [] c = "S" -> "s" [] c = "T" -> "t"
      [] c = "U" -> "u" [] c = "V" -> "v" [] c = "W" -> "w" [] c = "X" -> "x"
      [] c = "Y" -> "y" [] c = "Z" -> "z"
      [] OTHER -> c

\* str.lower()
ToLower(s) == [i \in 1..Len(s) |-> Lower(s[i])]

\* a or b, for strings
OrElse(a, b) == IF a # <<>> THEN a ELSE b

\* str(bounds) of a tuple of four ints
BoundsText(b) ==
    <<"(">> \o IntStr(b[1]) \o <<",", " ">> \o IntStr(b[2]) \o <<",", " ">>
        \o IntStr(b[3]) \o <<",", " ">> \o IntStr(b[4]) \o <<")">>

\* NodeSnapshot.prompt_line(index)
prompt_line(node, index) ==
    IntStr(index) \o <<".", " ", "t", "e", "x", "t", "=", "'">>
        \o OrElse(OrElse(node.text, node.content_desc), <<"<", "e", "m", "p", "t", "y", ">">>)
        \o <<"'", " ", "d", "e", "s", "c", "=", "'">> \o OrElse(node.content_desc, <<"-">>)
        \o <<"'", " ", "i", "d", "=", "'">> \o OrElse(node.resource_id, <<"-">>)
        \o <<"'", " ", "c", "l", "a", "s", "s", "=", "'">> \o node.class_name
        \o <<"'", " ", "b", "o", "u", "n", "d", "s", "=">> \o BoundsText(node.bounds)

\* nodes[:limit]: a negative limit counts from the end
Excerpt(nodes, limit) ==
    IF limit >= Len(nodes) THEN nodes
    ELSE IF limit >= 0 THEN SubSeq(nodes, 1, limit)
    ELSE IF Len(nodes) + limit > 0 THEN SubSeq(nodes, 1, Len(nodes) + limit)
    ELSE <<>>

\* "\n".join(node.prompt_line(idx + 1) ...) from the k-th node of excerpt on
RECURSIVE JoinedFrom(_, _)
JoinedFrom(excerpt, k) ==
    IF k > Len(excerpt) THEN <<>>
    ELSE prompt_line(excerpt[k], k)
         \o (IF k < Len(excerpt) THEN <<"\n">> ELSE <<>>)
         \o JoinedFrom(excerpt, k + 1)

\* summarize_nodes(nodes, limit)
summarize_nodes(nodes, limit) == JoinedFrom(Excerpt(nodes, limit), 1)

\* PROMPT_TEMPLATE, of which the instructions are cut down to the start of
\* the list of action names (line 21); the text left out holds neither
\* "type" nor "user request:" in any case of letters
TemplateNames ==
    <<"\"", "n", "a", "m", "e", "\"", ":", " ", "\"", "t", "a", "p", "\"", " ", "|", " ",
      "\"", "i", "n", "p", "u", "t", "_", "t", "e", "x", "t", "\"", " ", "|", " ", "\"",
      "w", "a", "i", "t", "\"", "\n">>
TemplateConfiguration ==
    <<"\n", "C", "o", "n", "f", "i", "g", "u", "r", "a", "t", "i", "o", "n", ":", "\n">>
TemplateNodes ==
    <<"\n", "\n", "C", "u", "r", "r", "e", "n", "t", " ", "U", "I", " ", "n", "o", "d",
      "e", "s", " ", "(", "l", "i", "m", "i", "t", "=">>
TemplateNodesEnd == <<")", ":", "\n">>
TemplateHistory ==
    <<"\n", "\n", "E", "x", "e", "c", "u", "t", "i", "o", "n", " ", "h", "i", "s", "t",
      "o", "r", "y", " ", "(", "l", "a", "t", "e", "s", "t", " ", "f", "i", "r", "s", "t",
      ")", ":", "\n">>
TemplateRequest ==
    <<"\n", "\n", "U", "s", "e", "r", " ", "r", "e", "q", "u", "e", "s", "t", ":", "\n">>

\* str(config.to_prompt_payload()), cut down to the platform
DeviceInfo ==
    <<"{", "'", "p", "l", "a", "t", "f", "o", "r", "m", "N", "a", "m", "e", "'", ":", " ",
      "'", "a", "n", "d", "r", "o", "i", "d", "'", "}">>

NoNodesAvailable ==
    <<"<", "n", "o", " ", "n", "o", "d", "e", "s", " ", "a", "v", "a", "i", "l", "a", "b",
      "l", "e", ">">>
EmptyHistory == <<"<", "e", "m", "p", "t", "y", ">">>

\* PromptBuilder.build(request, nodes, history) with node_limit = limit
build(request, nodes, history_chars, limit) ==
    TemplateNames \o TemplateConfiguration \o DeviceInfo
        \o TemplateNodes \o IntStr(limit) \o TemplateNodesEnd
        \o OrElse(summarize_nodes(nodes, limit), NoNodesAvailable)
        \o TemplateHistory \o OrElse(history_chars, EmptyHistory)
        \o TemplateRequest \o request \o <<"\n">>

\* the fallback_nodes of run_instruction: node.as_dict() with "index"
FallbackNodes(nodes) ==
    [k \in 1..Len(nodes) |->
        [text |-> nodes[k].text, content_desc |-> nodes[k].content_desc,
         resource_id |-> nodes[k].resource_id, class_name |-> nodes[k].class_name,
         bounds |-> nodes[k].bounds, index |-> k]]

\* the position after the last occurrence of pat in s, 0 when there is none
LastEnd(s, pat) ==
    LET ends == {i + Len(pat) : i \in {j \in 0..(Len(s) - Len(pat)) :
                                         SubSeq(s, j + 1, j + Len(pat)) = pat}}
    IN  IF ends = {} THEN 0 ELSE CHOOSE e \in ends : \A f \in ends : f <= e

\* s.split(pat)[-1]
AfterLast(s, pat) == SubSeq(s, LastEnd(s, pat) + 1, Len(s))

\* s.replace(pat, "")
RECURSIVE Without(_, _)
Without(s, pat) ==
    IF Len(s) < Len(pat) THEN s
    ELSE IF SubSeq(s, 1, Len(pat)) = pat THEN Without(SubSeq(s, Len(pat) + 1, Len(s)), pat)
    ELSE <<Head(s)>> \o Without(Tail(s), pat)

\* .replace("을", "").replace("를", "").replace("에서", "")
WithoutParticles(s) == Without(Without(Without(s, <<"{eul}">>), <<"{reul}">>), <<"{e}", "{seo}">>)

RequestMarker ==
    <<"U", "s", "e", "r", " ", "r", "e", "q", "u", "e", "s", "t", ":">>
RequestMarkerLower == ToLower(RequestMarker)

\* stop_words of _extract_keywords
StopWords ==
  { <<"{reul}">>, <<"{eul}">>, <<"{e}">>, <<"{e}", "{seo}">>,
    <<"{ui}">>, <<"{ro}">>, <<"{eu}", "{ro}">>, <<"{gwa}">>,
    <<"{wa}">>, <<"{i}">>, <<"{ga}">>, <<"{eun}">>,
    <<"{neun}">>, <<"{hyeon}", "{jae}">>, <<"{hwa}", "{myeon}">>, <<"{beo}", "{teun}">>,
    <<"{keul}", "{lik}">>, <<"{nul}", "{leo}">>, <<"{nul}", "{leo}", "{jwo}">>, <<"{hae}", "{jwo}">>,
    <<"{ju}", "{se}", "{yo}">>, <<"{su}">>, <<"{it}", "{seup}", "{ni}", "{da}">> }

\* the words that are no stop word and longer than one character, in order
RECURSIVE KeptWords(_)
KeptWords(s) ==
    IF s = <<>> THEN <<>>
    ELSE IF Head(s) \notin StopWords /\ Len(Head(s)) > 1
         THEN <<Head(s)>> \o KeptWords(Tail(s))
         ELSE KeptWords(Tail(s))

\* the request part _extract_keywords reads the words from
RequestPart(request) ==
    IF (IsSubstr(RequestMarker, request) \/ IsSubstr(RequestMarkerLower, request))
       /\ LastEnd(request, RequestMarkerLower) > 0
    THEN Strip(AfterLast(request, RequestMarkerLower))
    ELSE request

\* LLMClient._extract_keywords
extract_keywords(request) == KeptWords(Split(RequestPart(request)))

\* " ".join(words)
RECURSIVE JoinWords(_)
JoinWords(words) ==
    IF words = <<>> THEN <<>>
    ELSE IF Len(words) = 1 THEN Head(words)
    ELSE Head(words) \o <<" ">> \o JoinWords(Tail(words))

\* combined_keywords of _find_best_match, lowered
CombinedKeywords(keywords) == ToLower(Strip(WithoutParticles(JoinWords(keywords))))

\* the points the keywords from the k-th on give a node
RECURSIVE KeywordScore(_, _, _)
KeywordScore(node, keywords, k) ==
    IF k > Len(keywords) THEN 0
    ELSE LET keyword_lower == WithoutParticles(ToLower(keywords[k]))
         IN  (IF IsSubstr(keyword_lower, ToLower(node.text)) THEN 10 ELSE 0)
             + (IF IsSubstr(keyword_lower, ToLower(node.content_desc)) THEN 8 ELSE 0)
             + (IF IsSubstr(keyword_lower, ToLower(node.resource_id)) THEN 5 ELSE 0)
             + KeywordScore(node, keywords, k + 1)

\* the score of one node before the bonus for a short text
MatchScore(node, keywords) ==
    (IF IsSubstr(CombinedKeywords(keywords), ToLower(node.text)) THEN 100 ELSE 0)
    + KeywordScore(node, keywords, 1)

\* the score of one node that is not skipped
NodeScore(node, keywords) ==
    LET score == MatchScore(node, keywords)
    IN  IF score > 0 /\ Len(node.text) < 20 THEN score + 5 ELSE score

\* the loop of _find_best_match from the k-th node on: [score, at], at the
\* position of the best match so far, 0 for None
RECURSIVE BestFrom(_, _, _, _)
BestFrom(nodes, keywords, k, best) ==
    IF k > Len(nodes) THEN best
    ELSE IF nodes[k].text = <<>> /\ nodes[k].content_desc = <<>>
    THEN BestFrom(nodes, keywords, k + 1, best)
    ELSE IF NodeScore(nodes[k], keywords) > best.score
    THEN BestFrom(nodes, keywords, k + 1,
                  [score |-> NodeScore(nodes[k], keywords), at |-> k])
    ELSE BestFrom(nodes, keywords, k + 1, best)

\* a loop of _find_best_match that skips no node
RECURSIVE BestFromAll(_, _, _, _)
BestFromAll(nodes, keywords, k, best) ==
    IF k > Len(nodes) THEN best
    ELSE IF NodeScore(nodes[k], keywords) > best.score
    THEN BestFromAll(nodes, keywords, k + 1,
                     [score |-> NodeScore(nodes[k], keywords), at |-> k])
    ELSE BestFromAll(nodes, keywords, k + 1, best)

\* a loop of _find_best_match in which a later node of equal score wins
RECURSIVE BestFromLast(_, _, _, _)
BestFromLast(nodes, keywords, k, best) ==
    IF k > Len(nodes) THEN best
    ELSE IF nodes[k].text = <<>> /\ nodes[k].content_desc = <<>>
    THEN BestFromLast(nodes, keywords, k + 1, best)
    ELSE IF NodeScore(nodes[k], keywords) >= best.score /\ NodeScore(nodes[k], keywords) > 0
    THEN BestFromLast(nodes, keywords, k + 1,
                      [score |-> NodeScore(nodes[k], keywords), at |-> k])
    ELSE BestFromLast(nodes, keywords, k + 1, best)

\* a _find_best_match that keeps the last of the nodes of highest score
find_best_match_last(nodes, keywords) ==
    BestFromLast(nodes, keywords, 1, [score |-> 0, at |-> 0]).at

\* a _find_best_match that skips no node
find_best_match_all(nodes, keywords) ==
    BestFromAll(nodes, keywords, 1, [score |-> 0, at |-> 0]).at

\* LLMClient._find_best_match: the position in nodes of the node returned,
\* 0 for None
find_best_match(nodes, keywords) ==
    BestFrom(nodes, keywords, 1, [score |-> 0, at |-> 0]).at

\* the cue test of _mock_actions on the lowered prompt
HasInputCue(request) ==
    \/ IsSubstr(<<"{ip}", "{ryeok}">>, request)
    \/ IsSubstr(<<"i", "n", "p", "u", "t">>, request)
    \/ IsSubstr(<<"t", "y", "p", "e">>, request)

ReasonInput ==
    <<"i", "n", "p", "u", "t", " ", "f", "i", "e", "l", "d", " ", "m", "a", "t", "c", "h",
      "e", "d">>
ReasonKeyword ==
    <<"k", "e", "y", "w", "o", "r", "d", " ", "m", "a", "t", "c", "h", "e", "d">>
ReasonNoMatch ==
    <<"n", "o", " ", "m", "a", "t", "c", "h", " ", "f", "o", "u", "n", "d">>
ReasonNoNodes == <<"n", "o", " ", "n", "o", "d", "e", "s">>

\* a node dict of the planner: target.get("index", 1) is its "index"
IndexOf(target) == IF "index" \in DOMAIN target THEN target.index ELSE 1

\* metadata={"mock_reason": reason, "element": str(target)}; of the text
\* of the dict, which nothing reads, the index is kept
MockMeta(reason, target) ==
    [key \in {"mock_reason", "element"} |->
        IF key = "mock_reason" THEN PyStr(reason) ELSE PyStr(IntStr(IndexOf(target)))]

\* the action _mock_actions plans on a target
MockAction(target, request) ==
    IF HasInputCue(request)
    THEN PlannedAction("input_text", [strategy |-> "node_index", value |-> PyInt(IndexOf(target))],
                       PyStr(<<>>), MockMeta(ReasonInput, target))
    ELSE PlannedAction("tap", [strategy |-> "node_index", value |-> PyInt(IndexOf(target))],
                       PyNone, MockMeta(ReasonKeyword, target))

MockNoop(reason) ==
    PlannedAction("noop", NoLocator, PyNone, [key \in {"mock_reason"} |-> PyStr(reason)])

\* a _mock_actions that asks for a further turn
mock_actions_refresh(nodes, prompt) ==
    LET request == ToLower(prompt)
        at == find_best_match(nodes, extract_keywords(request))
    IN  [actions |-> IF nodes = <<>> THEN <<MockNoop(ReasonNoNodes)>>
                     ELSE IF at = 0 THEN <<MockNoop(ReasonNoMatch)>>
                     ELSE <<MockAction(nodes[at], request)>>,
         request_refresh |-> TRUE]

\* LLMClient._mock_actions(nodes, prompt)
mock_actions(nodes, prompt) ==
    LET request == ToLower(prompt)
        at == find_best_match(nodes, extract_keywords(request))
    IN  [actions |-> IF nodes = <<>> THEN <<MockNoop(ReasonNoNodes)>>
                     ELSE IF at = 0 THEN <<MockNoop(ReasonNoMatch)>>
                     ELSE <<MockAction(nodes[at], request)>>,
         request_refresh |-> FALSE]

\* LLMClient.plan_actions with the mock provider, as run_instruction calls
\* it in a turn
plan_turn(request, nodes, history_chars, limit) ==
    mock_actions(FallbackNodes(nodes), build(request, nodes, history_chars, limit))

\* the node limit of a PromptBuilder that is given none
DefaultNodeLimit == 40

\* a small node limit, and one below zero
SmallNodeLimit == 2
NegativeNodeLimit == 0 - 1

\* a node that only a resource id names, one with a description only, one
\* whose text runs over two lines
NodeIdOnly == Node(<<>>, <<>>, <<"g", "o">>, <<0, 0, 10, 20>>)
NodeDescOnly == Node(<<>>, <<"G", "o">>, <<>>, <<0, 20, 10, 40>>)
NodeTwoLines == Node(<<"a", "\n", "o", "k">>, <<>>, <<>>, <<0, 40, 10, 60>>)

\* the node lists the prompt and the heuristic planner are given
PlannerScreens ==
    { <<>>,
      <<NodeWithId, NodeBare, NodeTextOnly, NodeZero>>,
      <<NodeIdOnly, NodeBare>>,
      <<NodeIdOnly, NodeDescOnly, NodeTextOnly>>,
      <<NodeTwoLines>> }

\* the requests: a word, a word after "type", a word in capitals, a word
\* no node holds, no word at all, a word before a stop word, the word for
\* input, and stop words only ("button click")
Requests ==
    { <<"o", "k">>, <<"t", "y", "p", "e", " ", "o", "k">>, <<"G", "O">>, <<"z", "z">>, <<>>,
      <<"o", "k", " ", "{nul}", "{leo}", "{jwo}">>, <<"g", "o", " ", "{ip}", "{ryeok}">>,
      <<"{beo}", "{teun}", " ", "{keul}", "{lik}">> }

\* the attribute dict of the element a node is read from
AttribOf(node) ==
    [key \in {"text", "content-desc", "resource-id", "class", "bounds"} |->
        CASE key = "text" -> node.text
          [] key = "content-desc" -> node.content_desc
          [] key = "resource-id" -> node.resource_id
          [] key = "class" -> node.class_name
          [] key = "bounds" -> Brackets(node.bounds[1], node.bounds[2], node.bounds[3],
                                        node.bounds[4])]

\* the page source of a screen: its elements under a root without attributes
XmlOf(nodes) ==
    [wellformed |-> TRUE,
     elements |-> <<EmptyMeta>> \o [k \in 1..Len(nodes) |-> AttribOf(nodes[k])]]

\* the applications SpecPure starts from
Applications ==
    [fn : {"parse_coordinates"}, arg : CoordinateInputs, ret : {Pending}]
    \cup [fn : {"parse_xml"}, arg : XmlPayloads, ret : {Pending}]
    \cup [fn : {"parse_accessibility_dump"}, arg : DumpPayloads, ret : {Pending}]
    \cup [fn : {"run_instruction"}, arg : [dump : DumpPayloads, xml : XmlPayloads],
          ret : {Pending}]
    \cup [fn : {"summarize_nodes"},
          arg : [nodes : PlannerScreens,
                 limit : {0, 1, SmallNodeLimit, DefaultNodeLimit, NegativeNodeLimit}],
          ret : {Pending}]
    \cup [fn : {"find_best_match"},
          arg : {[nodes |-> FallbackNodes(s), keywords |-> extract_keywords(ToLower(r))] :
                    s \in PlannerScreens, r \in Requests},
          ret : {Pending}]
    \cup [fn : {"mock_actions"},
          arg : {[nodes |-> FallbackNodes(s), prompt |-> r] :
                    s \in PlannerScreens, r \in Requests},
          ret : {Pending}]
    \cup [fn : {"run_heuristic"},
          arg : {[request |-> r, dump |-> <<>>, xml |-> XmlOf(s), limit |-> n] :
                    r \in Requests, s \in PlannerScreens,
                    n \in {SmallNodeLimit, DefaultNodeLimit}},
          ret : {Pending}]

PureInit ==
    /\ Constructed
    /\ platform = "android"
    /\ device = Calm
    /\ applied \in Applications

\* the function fn is applied to its argument and gives ret
Apply(fn, ret) ==
    /\ applied.fn = fn
    /\ applied.ret = Pending
    /\ applied' = [applied EXCEPT !.ret = ret]
    /\ UNCHANGED <<configVars, device, acquisitions, bridge, sessionVars, current_nodes,
                   ncalls, planned, pc, op, connectVars, runVars, execVars, endVars, prev>>

\* AppiumBridge._parse_coordinates(arg)
ApplyParseCoordinates == Apply("parse_coordinates", parse_coordinates(applied.arg))

\* NodeParser.parse_xml(arg)
ApplyParseXml == Apply("parse_xml", parse_xml(applied.arg))

\* NodeParser.parse_accessibility_dump(arg)
ApplyParseDump ==
    Apply("parse_accessibility_dump", parse_accessibility_dump(applied.arg))

\* the first call on the bridge is run_instruction(request, 1), before a
\* device whose dump and page source are those of arg
PayloadStart ==
    /\ applied.fn = "run_instruction"
    /\ ncalls = 0
    /\ Enter("run", DefaultMaxRetries, 1)

\* the first call on the bridge is run_instruction(request, max_turns) with
\* the mock provider, for a max_turns of at least 1
HeuristicStart ==
    /\ applied.fn = "run_heuristic"
    /\ ncalls = 0
    /\ \E mt \in 1..(MaxTurns + 1) : Enter("run", DefaultMaxRetries, mt)

\* the snapshot taken before the first turn, parsed from the payloads
PayloadCollect ==
    /\ applied.fn \in {"run_instruction", "run_heuristic"}
    /\ pc = "collect"
    /\ Collected(collect_nodes(driver, parse_accessibility_dump(applied.arg.dump).nodes,
                               TRUE, parse_xml(applied.arg.xml).nodes), "loop")
    /\ attempt' = 0 /\ last_error' = "None" /\ tries' = <<>> /\ sleeps' = 0
    /\ UNCHANGED <<fixedVars, sessionVars, ncalls, planned, op, max_retries, probe, max_turns,
                   turn, history, executed_actions, history_text, batches, planSnap,
                   attempted, execVars, prev>>

\* the planner answers with a back and asks for no further turn
PayloadPlan ==
    /\ applied.fn = "run_instruction"
    /\ Plan([actions |-> <<BackAction>>, request_refresh |-> FALSE])

\* summarize_nodes(nodes, limit)
ApplySummarize ==
    Apply("summarize_nodes",
          [k |-> "text", s |-> summarize_nodes(applied.arg.nodes, applied.arg.limit)])

\* LLMClient._find_best_match(nodes, keywords, request)
ApplyFindBestMatch ==
    Apply("find_best_match",
          [k |-> "match", at |-> find_best_match(applied.arg.nodes, applied.arg.keywords)])

\* LLMClient._mock_actions(nodes, prompt) on a bare request
ApplyMockActions ==
    Apply("mock_actions",
          [k |-> "plan", plan |-> mock_actions(applied.arg.nodes, applied.arg.prompt)])

\* a turn of run_instruction with the mock provider and a PromptBuilder of
\* node_limit = arg.limit: the heuristic planner never asks for a refresh,
\* so the turn is the first and the history is empty
HeuristicPlan ==
    /\ applied.fn = "run_heuristic"
    /\ history = <<>>
    /\ Plan(plan_turn(applied.arg.request, current_nodes.nodes, <<>>, applied.arg.limit))

PureNext ==
    \/ ApplyParseCoordinates
    \/ ApplyParseXml
    \/ ApplyParseDump
    \/ PayloadStart
    \/ HeuristicStart
    \/ ConnectFresh
    \/ ConnectOptions
    \/ ConnectAttempt
    \/ ConnectExhausted
    \/ PayloadCollect
    \/ PayloadPlan
    \/ ApplySummarize
    \/ ApplyFindBestMatch
    \/ ApplyMockActions
    \/ HeuristicPlan
    \/ ExecAction
    \/ TurnEnd

SpecPure == PureInit /\ [][PureNext]_vars

(* ------------------- the tools of server.py: SpecServer ----------------- *)
\* the server process has started: no tool has been called, the global
\* bridge is None, and the configuration file, where there is one, is the
\* one setup_appium_connection writes
ServerInit ==
    /\ Constructed
    /\ platform = "android"
    /\ ~use_accessibility_dump
    /\ device = Calm
    /\ applied = NoApplication

\* a setup_appium_connection that closes the session of the bridge it
\* replaces
OpenAfterDisconnect(sessions, handle) == sessions \ {handle}

\* the open sessions after setup_appium_connection has assigned a new
\* AppiumBridge to the global: nothing calls disconnect() on the old one
OpenAfterReplace(sessions, handle) == sessions

\* a tool call that ends in the except clause of call_tool before it has
\* touched the bridge
ToolRaises(name, e, at) ==
    /\ pc = "idle"
    /\ ncalls < MaxCalls
    /\ ncalls' = ncalls + 1
    /\ op' = name
    /\ calls' = <<>>
    /\ Raise(e, "None", at)
    /\ UNCHANGED <<fixedVars, sessionVars, current_nodes, planned, connectVars, runVars,
                   plan, idx, logs, resolveSnap, prev>>

\* setup_appium_connection fails before its step 4: the Appium server does
\* not start, or no device is found
ToolSetupFails == ToolRaises("setup_appium_connection", "RuntimeError", "setup")

\* setup_appium_connection, steps 1 to 3 done: a new AppiumBridge replaces
\* the global one, and connect() is entered on it
ToolSetup ==
    /\ EnterOn("setup_appium_connection", DefaultMaxRetries, 0, <<>>)
    /\ bridge' = "made"
    /\ driver' = 0
    /\ open' = OpenAfterReplace(open, driver)
    /\ UNCHANGED nextSession

\* get_bridge() without a global bridge and without a configuration file
ToolNoConfig ==
    /\ bridge = "none"
    /\ \E name \in {"get_screen_elements", "execute_action", "run"} :
          ToolRaises(name, "FileNotFoundError", "get_bridge")

\* get_bridge(), then connect() on the bridge it returns
ToolEnter(name, turns) ==
    /\ EnterOn(name, DefaultMaxRetries, turns, current_nodes.nodes)
    /\ bridge' = "made"
    /\ UNCHANGED sessionVars

\* get_screen_elements: get_bridge(), connect(), then collect_nodes()
ToolGetScreenElements == ToolEnter("get_screen_elements", 0)

\* execute_action: get_bridge(), connect(), then the calls on the driver
ToolExecuteAction == ToolEnter("execute_action", 0)

\* run_test_scenario: get_bridge(), then run_instruction(scenario, max_steps)
ToolRunScenario == \E max_steps \in 1..MaxTurns : ToolEnter("run", max_steps)

\* the end of a tool that went on after connect(): collect_nodes() of
\* get_screen_elements, whose result is returned and not kept, or the driver
\* calls of execute_action, which succeed or raise
ToolEnd(name, st, e, value, made) ==
    /\ pc = "tool"
    /\ op = name
    /\ calls' = calls \o made
    /\ IF st = "ok" THEN Return(value) ELSE Raise(e, "None", "tool")
    /\ UNCHANGED <<fixedVars, sessionVars, current_nodes, ncalls, planned, op, connectVars,
                   runVars, plan, idx, logs, resolveSnap, prev>>

ToolCollect ==
    \E dump \in ScreenPool, tree \in ScreenPool, tree_ok \in BOOLEAN :
        LET got == collect_nodes(driver, dump, tree_ok, tree)
        IN  ToolEnd("get_screen_elements", got.st, got.exc, got.nodes, <<>>)

ToolAct ==
    \E ok \in BOOLEAN :
        ToolEnd("execute_action", IF ok THEN "ok" ELSE "raise", "RuntimeError", <<>>,
                <<[i |-> 0, c |-> "execute", ok |-> ok]>>)

\* a turn of the run_instruction of run_test_scenario: the bridge of the
\* server plans with the mock provider, which never asks for a refresh, so
\* the turn is the first and the history is empty
ServerPlan ==
    /\ bridge = "made"
    /\ history = <<>>
    /\ \E request \in Requests :
          Plan(plan_turn(request, current_nodes.nodes, <<>>, DefaultNodeLimit))

ServerNext ==
    \/ ToolSetupFails
    \/ ToolSetup
    \/ ToolNoConfig
    \/ ToolGetScreenElements
    \/ ToolExecuteAction
    \/ ToolRunScenario
    \/ ConnectReuse
    \/ ConnectDiscard
    \/ ConnectFresh
    \/ ConnectOptions
    \/ ConnectAttempt
    \/ ConnectExhausted
    \/ ToolCollect
    \/ ToolAct
    \/ CollectInitial
    \/ ServerPlan
    \/ ExecAction
    \/ TurnEnd

SpecServer == ServerInit /\ [][ServerNext]_vars

(* ------------------------------ properties ----------------------------- *)
\* a run_instruction call is running or was the last call to end
InRun == op = "run"

\* the running call has ended
Ended == pc = "idle"

\* the driver calls made by the action at position k of the plan
CallsOf(k) == {n \in 1..Len(calls) : calls[n].i = k}

\* C1: a run_instruction call makes at most max_turns plan+execute batches, and
\* one that returned after a plan that asked to continue (or after no plan at
\* all) made exactly max_turns of them.
C1_BatchesBounded ==
    InRun =>
        /\ batches <= max_turns
        /\ (Ended /\ outcome = "returned" /\ (batches = 0 \/ plan.request_refresh))
              => batches = max_turns

\* a run of two turns whose planner asked to continue both times has returned
C1_Witness ==
    /\ InRun /\ Ended /\ outcome = "returned"
    /\ max_turns = 2 /\ batches = 2 /\ plan.request_refresh

\* C2: a plan's actions are run one by one from the first (the loop is at the
\* action after the last record), driver calls are made in the order of the
\* actions, an error record is the last record of its plan and ends the call,
\* and no driver call belongs to an action after the one that raised.
C2_FailFastInOrder ==
    (InRun /\ pc \in {"exec", "idle"}) =>
        /\ Len(logs) <= Len(plan.actions)
        /\ pc = "exec" => idx = Len(logs) + 1
        /\ \A m, n \in 1..Len(calls) : m < n => calls[m].i <= calls[n].i
        /\ \A n \in 1..Len(calls) : calls[n].i <= Len(logs)
        /\ \A k \in 1..Len(logs) :
              logs[k].kind = "error" =>
                  /\ k = Len(logs)
                  /\ Ended /\ outcome = "raised" /\ site = "action"
                  /\ \A j \in (k + 1)..Len(plan.actions) : CallsOf(j) = {}

\* the first of two actions raised after a driver call, and the second, a
\* back, was never run
C2_Witness ==
    /\ InRun /\ Ended /\ site = "action"
    /\ Len(plan.actions) = 2 /\ Len(logs) = 1 /\ logs[1].kind = "error"
    /\ plan.actions[2].name = "back"
    /\ CallsOf(1) # {}

\* C3: when an action's exception has ended run_instruction, the last entry of
\* the run's history list is the error record of that action.
C3_ErrorInHistory ==
    (Aborted /\ Ended) =>
        /\ history # <<>>
        /\ history[Len(history)] = logs[Len(logs)]
        /\ history[Len(history)].kind = "error"

\* C4 as stated: the result is the sequence of the actions attempted, the
\* aborting action its last element when a turn aborts.
C4_AbortingActionDelivered ==
    (InRun /\ Ended /\ outcome \in {"returned", "raised"}) =>
        /\ result = attempted
        /\ Aborted => (result # <<>> /\ result[Len(result)] = plan.actions[idx])

\* C4: the result run_instruction returns is the actions of all its plans in
\* order, each one run to an ok or a skip record and none left out; a call an
\* action aborted raises and delivers no result.
C4_ResultIsLedger ==
    /\ (InRun /\ Ended /\ outcome = "returned") =>
          /\ result = attempted
          /\ Len(result) = Len(history)
          /\ \A k \in 1..Len(result) : history[k].kind \in {"ok", "skip"}
    /\ (Aborted /\ Ended) => result = <<>>

\* a run of two turns returned two actions, one of them skipped
C4_Witness ==
    /\ InRun /\ Ended /\ outcome = "returned"
    /\ batches = 2 /\ Len(result) = 2
    /\ result[1] # result[2]
    /\ \E k \in 1..2 : history[k].kind = "skip"

\* C5: an action whose name is outside the vocabulary gets a skip record and
\* makes no driver call, and after it the plan's loop is at the next action.
C5_UnknownSkipped ==
    (InRun /\ pc \in {"exec", "idle"}) =>
        \A k \in 1..Len(logs) :
            plan.actions[k].name \notin Vocabulary =>
                /\ logs[k].kind = "skip"
                /\ CallsOf(k) = {}
                /\ (k = Len(logs) /\ k < Len(plan.actions))
                      => (pc = "exec" /\ idx = k + 1)

\* an unknown action was skipped and the action after it made a driver call
C5_Witness ==
    /\ InRun /\ Len(logs) = 2
    /\ plan.actions[1].name \notin Vocabulary
    /\ logs[1].kind = "skip" /\ logs[2].kind = "ok"
    /\ CallsOf(2) # {}

\* the failed attempts of this connect() that a sleep follows
Between == {k \in 1..Len(tries) : tries[k] # "ok" /\ k < max_retries}

\* C6: connect makes at most max_retries attempts, none after one that
\* succeeded, has slept once for each failed attempt but the max_retries-th,
\* and raises RuntimeError only after max_retries failures, with the last
\* one's error as its cause.
C6_BoundedRetries ==
    /\ Len(tries) <= max_retries
    /\ \A k \in 1..(Len(tries) - 1) : tries[k] # "ok"
    /\ sleeps = Cardinality(Between)
    /\ (op = "connect" /\ Ended /\ outcome = "raised" /\ exc = "RuntimeError") =>
          /\ Len(tries) = max_retries
          /\ \A k \in 1..Len(tries) : tries[k] # "ok"
          /\ cause = IF max_retries = 0 THEN "None" ELSE tries[max_retries]

\* three attempts failed, the last with an error unlike the first
C6_Witness ==
    /\ op = "connect" /\ Ended /\ outcome = "raised"
    /\ tries = <<"E1", "E1", "E2">> /\ cause = "E2" /\ sleeps = 2

\* C7: when connect has raised, the bridge holds no session handle.
C7_UnsetAfterFailure ==
    (Ended /\ outcome = "raised" /\ site = "connect") => driver = 0

\* connect ran out of attempts in a call that began with a stale session
C7_Witness ==
    /\ Ended /\ outcome = "raised" /\ site = "connect" /\ exc = "RuntimeError"
    /\ prev.driver # 0 /\ probe = "stale" /\ tries # <<>>

\* C8: after a probe that succeeded no attempt is made and the handle and the
\* sessions are those the call began with; after a probe that failed quit()
\* has been called and the handle is None until an attempt succeeds, and never
\* again the old one.
C8_ReuseOrDiscard ==
    /\ probe = "ok" =>
          /\ tries = <<>>
          /\ driver = prev.driver /\ nextSession = prev.nextSession
          /\ driver \in open
    /\ probe = "stale" =>
          /\ driver # prev.driver
          /\ pc \in {"options", "attempt"} =>
                /\ calls # <<>> /\ calls[1].c = "quit"
                /\ driver = 0

\* a stale session was discarded and a new one opened in its place
C8_Witness ==
    /\ probe = "stale" /\ op = "connect" /\ Ended
    /\ driver # 0 /\ driver # prev.driver

\* C9: the call an action's exception ended leaves the handle set, on a session
\* that was not quit; a run_instruction after it whose probe succeeds works on
\* that session, and makes no attempt and no session.
C9_SessionSurvivesAbort ==
    /\ (Aborted /\ Ended) => (driver # 0 /\ driver \in open)
    /\ (InRun /\ prev.aborted /\ probe = "ok") =>
          /\ driver = prev.driver /\ driver \in open
          /\ tries = <<>> /\ nextSession = prev.nextSession

\* the run after an aborted one is executing a plan on the session it found
C9_Witness ==
    /\ InRun /\ prev.aborted /\ probe = "ok" /\ pc = "exec"
    /\ driver = prev.driver

\* C10: a node_index lookup made for a plan read the snapshot the plan was
\* produced from, and while a plan is executed current_nodes is that snapshot.
C10_IndexAgainstPlanSnapshot ==
    InRun =>
        /\ resolveSnap # 0 => resolveSnap = planSnap
        /\ pc = "exec" => (planSnap # 0 /\ current_nodes.snap = planSnap)

\* a node_index locator was resolved in the second turn, on the snapshot
\* taken after the first
C10_Witness ==
    /\ InRun /\ turn = 1 /\ resolveSnap = 2 /\ planSnap = 2
    /\ current_nodes.snap = 2

\* C11: the history text of a turn's prompt is the records of all earlier
\* turns of the run from the latest back, six at most: its k-th entry is the
\* k-th latest record, and no record older than the sixth latest is in it.
C11_LastSixLatestFirst ==
    (InRun /\ pc = "exec") =>
        /\ Len(history) + Len(logs) = Len(attempted)
        /\ Len(history_text) = IF Len(history) < 6 THEN Len(history) ELSE 6
        /\ \A k \in 1..Len(history_text) : history_text[k] = history[Len(history) + 1 - k]

\* the eighth turn's prompt: seven records exist, the oldest is left out and
\* the latest, a skip after an ok, comes first
C11_Witness ==
    /\ InRun /\ pc = "exec" /\ Len(history) = 7
    /\ history[7].kind = "skip" /\ history[6].kind = "ok" /\ history[1].kind = "ok"
    /\ Len(history_text) = 6 /\ history_text[1].kind = "skip"

\* C12: with the dump source configured every collect_nodes call runs the dump
\* first, whatever the calls before it found, and reads the tree source only
\* after a dump of zero nodes; a dump with nodes is what it returns. Without
\* the dump source configured the dump is never run.
C12_DumpFirstEachTime ==
    \A k \in 1..Len(acquisitions) :
        LET q == acquisitions[k]
        IN  IF use_accessibility_dump
            THEN /\ q.tried # <<>> /\ q.tried[1] = "dump"
                 /\ q.dump_nodes > 0 => (q.tried = <<"dump">> /\ q.st = "ok" /\ q.from_dump)
                 /\ q.dump_nodes = 0 =>
                       (q.tried = <<"dump", "tree">> \/ (q.tried = <<"dump">> /\ q.st = "raise"))
            ELSE \A n \in 1..Len(q.tried) : q.tried[n] = "tree"

\* an acquisition fell back to the tree source after an empty dump, and the
\* one after it ran the dump again and returned its nodes
C12_Witness ==
    /\ use_accessibility_dump /\ Len(acquisitions) >= 2
    /\ acquisitions[1].tried = <<"dump", "tree">> /\ acquisitions[1].st = "ok"
    /\ acquisitions[2].tried = <<"dump">> /\ acquisitions[2].from_dump

\* the action at position k of the plan has been executed
Ran(k) == InRun /\ k <= Len(logs)

\* the lookup of the target of action k gave an element
LocatorFound(k) == \E n \in CallsOf(k) : calls[n].c = "find_element" /\ calls[n].ok

\* the names of the calls of action k, in order
RECURSIVE NamesFrom(_, _)
NamesFrom(k, n) ==
    IF n > Len(calls) THEN <<>>
    ELSE IF calls[n].i = k THEN <<calls[n].c>> \o NamesFrom(k, n + 1)
    ELSE NamesFrom(k, n + 1)

NamesOf(k) == NamesFrom(k, 1)

\* C13: a tap whose locator resolved to no element, and that has coordinates
\* neither in its value nor stashed in its metadata, is recorded as ok and
\* has made no click and no gesture.
C13_UnresolvedTapSilent ==
    \A k \in 1..Len(logs) :
        (/\ Ran(k)
         /\ plan.actions[k].name = "tap"
         /\ ~LocatorFound(k)
         /\ parse_coordinates(plan.actions[k].value).k = "none"
         /\ "fallback_coordinates" \notin DOMAIN plan.actions[k].metadata)
        => /\ logs[k].kind = "ok"
           /\ \A n \in CallsOf(k) : calls[n].c \notin {"click", "perform"}

\* the action at position k resolves a locator of a strategy other than
\* text, and the first device lookup for its target missed
FirstLookupMissed(k) ==
    /\ Ran(k)
    /\ plan.actions[k].name \in {"tap", "input_text", "assert_text"}
    /\ plan.actions[k].locator.strategy # "text"
    /\ NamesOf(k) # <<>>
    /\ \E n \in CallsOf(k) :
          /\ \A m \in CallsOf(k) : n <= m
          /\ calls[n].c = "find_element" /\ ~calls[n].ok

\* C14: for a node_index locator with a derivable locator and for a named
\* strategy, a first lookup that misses with the keyboard shown is followed
\* by hiding the keyboard and one retry of the lookup, whose element (or
\* none) is what resolution gives; with the keyboard not shown the miss
\* gives none and no second lookup.
C14_MissRetriedOnceIfKeyboard ==
    \A k \in 1..Len(logs) :
        FirstLookupMissed(k) =>
            IF device.kbd = "shown"
            THEN /\ Len(NamesOf(k)) >= 5
                 /\ SubSeq(NamesOf(k), 1, 5) =
                        <<"find_element", "is_keyboard_shown", "hide_keyboard", "time.sleep",
                          "find_element">>
                 /\ LocatorFound(k) <=> device.find2 = "hit"
            ELSE /\ Cardinality({n \in CallsOf(k) : calls[n].c = "find_element"}) = 1
                 /\ logs[k].reason # "NoSuchElementException"

\* how many of the calls cs are calls of name
CountIn(cs, name) == Cardinality({n \in DOMAIN cs : cs[n].c = name})

\* the calls _resolve_element makes for the action at position k
ResolutionCalls(k) ==
    resolve_element(plan.actions[k], current_nodes.nodes, driver, device).calls

\* C15: one locator resolution looks the target up at most twice and hides
\* the keyboard at most once, whatever the strategy and the device; and in
\* the execution of an action no call that failed is issued again, but for
\* that second lookup (the keyboard hide that ends input_text is a step of
\* its own, made once).
C15_AtMostOneRetry ==
    /\ \A k \in 1..Len(plan.actions) :
          /\ CountIn(ResolutionCalls(k), "find_element") <= 2
          /\ CountIn(ResolutionCalls(k), "hide_keyboard") <= 1
          /\ CountIn(ResolutionCalls(k), "is_keyboard_shown") <= 1
    /\ \A k \in 1..Len(logs) :
          /\ plan.actions[k].name \in {"tap", "input_text", "assert_text"}
                => /\ Len(ResolutionCalls(k)) <= Len(NamesOf(k))
                   /\ \A n \in 1..Len(ResolutionCalls(k)) :
                         ResolutionCalls(k)[n].c = NamesOf(k)[n]
          /\ \A m, n \in CallsOf(k) :
                (m < n /\ ~calls[m].ok /\ calls[m].c = calls[n].c)
                => \/ calls[m].c = "find_element"
                   \/ /\ calls[m].c = "hide_keyboard"
                      /\ plan.actions[k].name = "input_text"
                      /\ \A j \in CallsOf(k) : j <= n
                      /\ Cardinality({j \in CallsOf(k) : calls[j].c = "hide_keyboard"}) = 2

\* a text lookup missed with the keyboard shown: two lookups, one hide
C15_Witness ==
    /\ Ran(1)
    /\ plan.actions[1].name = "tap"
    /\ CountIn(ResolutionCalls(1), "find_element") = 2
    /\ CountIn(ResolutionCalls(1), "hide_keyboard") = 1
    /\ NamesOf(1) = <<"find_element", "is_keyboard_shown", "hide_keyboard", "time.sleep",
                      "find_element", "click">>

\* the action at position k made the call name, and it succeeded
Made(k, name) == \E n \in CallsOf(k) : calls[n].c = name /\ calls[n].ok

\* the action at position k issued the call name
Issued(k, name) == \E n \in CallsOf(k) : calls[n].c = name

\* C16: an input_text whose locator resolved to no element types into the
\* focused element when the driver gives one, else into the first EditText
\* when there is one, and fails without touching any element when there is
\* neither.
C16_FocusedThenEditText ==
    \A k \in 1..Len(logs) :
        (Ran(k) /\ plan.actions[k].name = "input_text" /\ ~LocatorFound(k))
        => IF device.active = "hit"
           THEN Made(k, "active_element") /\ ~Issued(k, "find_edit_text") /\ Issued(k, "clear")
           ELSE IF device.edit = "hit"
           THEN Made(k, "find_edit_text") /\ Issued(k, "clear")
           ELSE logs[k].kind = "error" /\ ~Issued(k, "clear")

\* input_text at position k has an element: the locator's, the focused one
\* or the first EditText
Settled(k) ==
    LocatorFound(k) \/ Made(k, "active_element") \/ Made(k, "find_edit_text")

\* the calls of action k from its first call of name on
From(k, name) ==
    LET ns == NamesOf(k)
        at == {n \in 1..Len(ns) : ns[n] = name}
    IN  IF at = {} THEN <<>>
        ELSE SubSeq(ns, CHOOSE n \in at : \A m \in at : n <= m, Len(ns))

\* what input_text does to its element when no call fails
TypingOf(a) ==
    <<"clear">>
    \o (IF Truthy(a.value) THEN <<"send_keys">> ELSE <<>>)
    \o (IF "auto_hide_keyboard" \in DOMAIN a.metadata
           /\ a.metadata["auto_hide_keyboard"] = PyBool(FALSE)
        THEN <<>> ELSE <<"time.sleep", "hide_keyboard">>)

\* s is t, or t cut after one of its calls
IsPrefix(s, t) == Len(s) <= Len(t) /\ SubSeq(t, 1, Len(s)) = s

\* C17: an input_text that has an element calls clear, then send_keys (when
\* there is a text to send), then after a pause hides the keyboard, the last
\* unless metadata auto_hide_keyboard is false; it fails only where clear or
\* send_keys fails, never because hiding the keyboard failed.
C17_ClearSendHide ==
    \A k \in 1..Len(logs) :
        (Ran(k) /\ plan.actions[k].name = "input_text" /\ Settled(k))
        => /\ From(k, "clear") # <<>>
           /\ IF \E n \in CallsOf(k) : calls[n].c \in {"clear", "send_keys"} /\ ~calls[n].ok
              THEN /\ logs[k].kind = "error"
                   /\ IsPrefix(From(k, "clear"), TypingOf(plan.actions[k]))
                   /\ ~calls[Len(calls)].ok
              ELSE /\ logs[k].kind = "ok"
                   /\ From(k, "clear") = TypingOf(plan.actions[k])

\* a text was typed, hiding the keyboard failed and the action is ok
C17_Witness ==
    /\ Ran(1)
    /\ plan.actions[1].name = "input_text"
    /\ LocatorFound(1)
    /\ From(1, "clear") = <<"clear", "send_keys", "time.sleep", "hide_keyboard">>
    /\ ~calls[Len(calls)].ok
    /\ logs[1].kind = "ok"

\* the characters of a string value, none for a missing one
TextOf(v) == IF v.t = "str" THEN v.s ELSE <<>>

\* C18: an assert_text whose element resolved and gave its text is ok
\* exactly when the trimmed expected value occurs in the trimmed text, a
\* missing value or text counting as empty; an assert_text whose element did
\* not resolve fails.
C18_TrimmedSubstring ==
    \A k \in 1..Len(logs) :
        (Ran(k) /\ plan.actions[k].name = "assert_text")
        => /\ (LocatorFound(k) /\ Made(k, "text"))
                 => (logs[k].kind = "ok"
                       <=> IsSubstr(Strip(TextOf(plan.actions[k].value)),
                                    Strip(TextOf(device.text))))
           /\ ~LocatorFound(k) => logs[k].kind = "error"

\* the expected value " k " is found in the text "ok"
C18_Witness ==
    /\ Ran(1)
    /\ plan.actions[1].name = "assert_text"
    /\ LocatorFound(1) /\ Made(1, "text")
    /\ plan.actions[1].value = PyStr(<<" ", "k", " ">>)
    /\ device.text = PyStr(<<"o", "k">>)
    /\ logs[1].kind = "ok"

\* the type of the exception _assert_text raises when the element is found
\* and the expected text is not in it
MismatchKind ==
    assert_compare(Start(BackAction), PyStr(<<"x">>), PyStr(<<>>), Calm).exc

\* C19: an assert_text that fails because its element did not resolve fails
\* with an exception of another type than the one of a text mismatch.
C19_MissingUnlikeMismatch ==
    \A k \in 1..Len(logs) :
        (/\ Ran(k)
         /\ plan.actions[k].name = "assert_text"
         /\ ~LocatorFound(k)
         /\ logs[k].kind = "error")
        => logs[k].reason # MismatchKind

\* the end coordinate of a swipe, as _swipe reads it
EndOf(a) ==
    IF MetaTruthy(a.metadata) THEN parse_coordinates(MetaGet(a.metadata, "end", PyNone))
    ELSE NoCoords

\* C20: a swipe whose value gives no start coordinate, or whose metadata
\* gives no end coordinate, is recorded as ok without any driver call, and
\* the loop goes on to the next action of the plan.
C20_SwipeWithoutEndsIsNoOp ==
    \A k \in 1..Len(logs) :
        (/\ Ran(k)
         /\ plan.actions[k].name = "swipe"
         /\ \/ parse_coordinates(plan.actions[k].value).k # "coords"
            \/ EndOf(plan.actions[k]).k # "coords")
        => /\ logs[k].kind = "ok"
           /\ CallsOf(k) = {}
           /\ idx > k

\* _resolve_element returned None for the action at position k
ResolvedNone(k) ==
    LET r == resolve_element(plan.actions[k], current_nodes.nodes, driver, device)
    IN  r.st = "ok" /\ ~r.elem

\* the action at position k has coordinates neither in its value nor stashed
\* in its metadata
NoCoordinates(k) ==
    value_or_fallback(plan.actions[k].value, plan.actions[k].metadata).k = "none"

\* C21 as the spec states it: a long_press with neither an element nor
\* coordinates is recorded as an error and ends the turn.
C21_PressWithoutTargetFails ==
    \A k \in 1..Len(logs) :
        (/\ Ran(k)
         /\ plan.actions[k].name = "long_press"
         /\ ResolvedNone(k)
         /\ NoCoordinates(k))
        => /\ logs[k].kind = "error"
           /\ idx = k

\* C21: a long_press whose duration reads as a number, for which
\* _resolve_element returns no element and which has coordinates neither in
\* its value nor stashed, makes no gesture, is recorded as ok, and the loop
\* goes on to the next action of the plan.
C21_PressWithoutTargetSilent ==
    \A k \in 1..Len(logs) :
        (/\ Ran(k)
         /\ plan.actions[k].name = "long_press"
         /\ duration_ms(plan.actions[k].metadata, 1000).ok
         /\ ResolvedNone(k)
         /\ NoCoordinates(k))
        => /\ logs[k].kind = "ok"
           /\ ~Issued(k, "perform")
           /\ idx > k

\* a long_press without target was passed over and the back after it ran
C21_Witness ==
    /\ Len(logs) = 2
    /\ plan.actions[1].name = "long_press"
    /\ plan.actions[1].locator.strategy = "text"
    /\ ResolvedNone(1) /\ NoCoordinates(1)
    /\ logs[1].kind = "ok"
    /\ logs[2].kind = "ok" /\ Made(2, "back")

\* C22: a wait whose value is absent or is not a number pauses (for the
\* default of one second) and is recorded as ok, and the loop goes on to the
\* next action of the plan.
C22_InvalidWaitPauses ==
    \A k \in 1..Len(logs) :
        (/\ Ran(k)
         /\ plan.actions[k].name = "wait"
         /\ \/ plan.actions[k].value = PyNone
            \/ ~ToInt(plan.actions[k].value).ok)
        => /\ logs[k].kind = "ok"
           /\ NamesOf(k) = <<"time.sleep">>
           /\ idx > k

\* the function fn has been applied
Applied(fn) == applied.fn = fn /\ applied.ret # Pending

\* how many integers a coordinate input holds that int() can read
ReadableIntegers(raw) ==
    CASE raw.t = "str" ->
            Cardinality({i \in 1..Len(Split(ReplaceCommas(raw.s))) :
                            ParseIntStr(Split(ReplaceCommas(raw.s))[i]).ok})
      [] raw.t = "list" -> Cardinality({i \in 1..Len(raw.v) : ToInt(raw.v[i]).ok})
      [] OTHER -> 0

\* C23: _parse_coordinates gives (x, y) for "x,y", for "x y" and for the
\* pair [x, y] alike, and gives no coordinates, without raising, for every
\* string or list that holds fewer than two readable integers.
C23_ParseCoordinates ==
    Applied("parse_coordinates")
    => /\ \A x, y \in CoordNumbers :
             applied.arg \in {CommaForm(x, y), SpaceForm(x, y), PairForm(x, y)}
             => applied.ret = Coords(x, y)
       /\ ReadableIntegers(applied.arg) < 2 => applied.ret = NoCoords

\* the metadata of a holds a bounds centre stashed by _resolve_element (a
\* pair; what a planner puts there is a text)
Stashed(a) == MetaGet(a.metadata, "fallback_coordinates", PyNone).t = "list"

\* v names position j of a collection of n nodes: the integer j or its
\* decimal text, with 1 <= j <= n
Names(v, j, n) == j \in 1..n /\ (v = PyInt(j) \/ v = PyStr(IntStr(j)))

PointOf(v) ==
    LET texts == {q \in (0..9) \X (0..9) : v = CommaForm(q[1], q[2])}
    IN  IF v.t = "list" /\ Len(v.v) = 2 /\ v.v[1].t = "int" /\ v.v[2].t = "int"
        THEN Coords(v.v[1].n, v.v[2].n)
        ELSE IF texts # {}
        THEN Coords((CHOOSE q \in texts : TRUE)[1], (CHOOSE q \in texts : TRUE)[2])
        ELSE NoCoords

\* the centre of bounds that hold no negative number
CentreOf(b) == PyList(<<PyInt((b[1] + b[3]) \div 2), PyInt((b[2] + b[4]) \div 2)>>)

\* the metadata m with the pair c under fallback_coordinates
WithFallback(m, c) ==
    [key \in DOMAIN m \cup {"fallback_coordinates"} |->
        IF key = "fallback_coordinates" THEN c ELSE m[key]]

\* the step executes a tap that names, by node_index, the node at position
\* j, from which no locator can be derived
TapsBareNode(j) ==
    /\ pc = "exec"
    /\ idx \in 1..Len(plan.actions)
    /\ Len(logs') = Len(logs) + 1
    /\ plan.actions[idx].name = "tap"
    /\ plan.actions[idx].locator.strategy = "node_index"
    /\ Names(plan.actions[idx].locator.value, j, Len(current_nodes.nodes))
    /\ current_nodes.nodes[j].resource_id = <<>>
    /\ current_nodes.nodes[j].content_desc = <<>>
    /\ current_nodes.nodes[j].text = <<>>

\* what such a tap leaves and does: before the metadata before the step,
\* after the metadata after it, b the bounds of the node
StashedAndTapped(before, after, value, b) ==
    LET target == IF PointOf(value).k = "coords" THEN PointOf(value)
                  ELSE PointOf(MetaGet(after, "fallback_coordinates", PyNone))
    IN  /\ after = IF b = <<0, 0, 0, 0>> \/ "fallback_coordinates" \in DOMAIN before
                   THEN before
                   ELSE WithFallback(before, CentreOf(b))
        /\ IF target.k = "coords"
           THEN /\ SubSeq(calls', Len(calls) + 1, Len(calls')) =
                      <<[i |-> idx, c |-> "perform", ok |-> device.gesture = "ok",
                         at |-> target]>>
                /\ logs'[Len(logs')].kind = "ok" <=> device.gesture = "ok"
           ELSE /\ calls' = calls
                /\ logs'[Len(logs')].kind = "ok"

\* C25: a tap that names by node_index a node without id, description and
\* text stashes the centre of the node's bounds under fallback_coordinates
\* unless the bounds are all zero or a fallback is there already, and makes
\* its gesture at the coordinates of its value when it has them, otherwise
\* at the fallback.
C25_StashAndTap ==
    [][\A j \in 1..Len(current_nodes.nodes) :
          TapsBareNode(j)
          => StashedAndTapped(plan.actions[idx].metadata, plan'.actions[idx].metadata,
                              plan.actions[idx].value, current_nodes.nodes[j].bounds)]_vars

\* a tap on the bare node kept the fallback it came with and tapped there
C25_Witness ==
    /\ Ran(1)
    /\ plan.actions[1] =
          PlannedAction("tap", Loc("node_index", PyInt(2)), PyNone,
                        Meta1("fallback_coordinates", PyStr(<<"8", ",", "9">>)))
    /\ Len(current_nodes.nodes) = 4
    /\ \E n \in CallsOf(1) : calls[n].c = "perform" /\ calls[n].ok /\ calls[n].at = Coords(8, 9)
    /\ logs[1].kind = "ok"

\* no line of the dump starts a node
NoBoundary(dump) == \A n \in 1..Len(dump) : dump[n].head \notin Boundaries

\* the payloads of the run are bad: a page source ET.fromstring rejects
\* and, where the dump is configured, a dump without a node
BadPayloads ==
    /\ applied.fn = "run_instruction"
    /\ ~applied.arg.xml.wellformed
    /\ use_accessibility_dump => NoBoundary(applied.arg.dump)

\* C26: parse_xml gives the empty sequence for a page source that is empty
\* or not well-formed, parse_accessibility_dump gives it for a dump that is
\* empty or holds no node, neither raises; and a run_instruction that gets
\* such payloads does not end at the acquisition: it plans from an empty
\* node collection.
C26_BadPayloadsGiveNoNodes ==
    /\ (Applied("parse_xml") /\ ~applied.arg.wellformed)
          => applied.ret = [k |-> "nodes", nodes |-> <<>>]
    /\ (Applied("parse_accessibility_dump") /\ NoBoundary(applied.arg))
          => applied.ret = [k |-> "nodes", nodes |-> <<>>]
    /\ (BadPayloads /\ InRun)
          => /\ ~(outcome = "raised" /\ site = "collect")
             /\ pc = "loop" => current_nodes = [snap |-> 1, nodes |-> <<>>]
             /\ batches >= 1 => (planSnap = 1 /\ current_nodes.nodes = <<>>)

\* after a rejected page source and a dump without a node a plan was made
C26_Witness ==
    /\ BadPayloads /\ InRun
    /\ use_accessibility_dump
    /\ applied.arg.dump # <<>>
    /\ batches = 1 /\ pc = "exec"
    /\ current_nodes.nodes = <<>>

\* the positions of the line feeds of a text
Breaks(s) == {i \in 1..Len(s) : s[i] = "\n"}

\* the position of the k-th line feed of a text; 0 for k = 0 and the
\* position after the end for the one after the last
BreakAt(s, k) ==
    IF k = 0 THEN 0
    ELSE IF k > Cardinality(Breaks(s)) THEN Len(s) + 1
    ELSE CHOOSE i \in Breaks(s) : Cardinality({j \in Breaks(s) : j < i}) = k - 1

\* the lines of a text: none for the empty text
LinesOf(s) ==
    IF s = <<>> THEN <<>>
    ELSE [k \in 1..(Cardinality(Breaks(s)) + 1) |->
             SubSeq(s, BreakAt(s, k - 1) + 1, BreakAt(s, k) - 1)]

Least(a, b) == IF a < b THEN a ELSE b

\* a turn of a run with the heuristic planner has been planned
HeuristicTurn == applied.fn = "run_heuristic" /\ batches >= 1

\* the summary in the prompt of the heuristic run's turn
TurnSummary == summarize_nodes(current_nodes.nodes, applied.arg.limit)

\* C27: the summary of a node sequence under the node limit N has
\* min(len(nodes), N) lines, line k is the line of element k under index k,
\* and in a run the node that line k describes is the node a node_index
\* locator of value k resolves to in that turn.
C27_SummaryLines ==
    /\ Applied("summarize_nodes")
          => /\ Len(LinesOf(applied.ret.s)) = Least(Len(applied.arg.nodes), applied.arg.limit)
             /\ \A k \in 1..Len(LinesOf(applied.ret.s)) :
                   LinesOf(applied.ret.s)[k] = prompt_line(applied.arg.nodes[k], k)
    /\ HeuristicTurn
          => /\ planSnap = current_nodes.snap
             /\ resolveSnap \in {0, planSnap}
             /\ Len(LinesOf(TurnSummary)) = Least(Len(current_nodes.nodes), applied.arg.limit)
             /\ \A k \in 1..Len(LinesOf(TurnSummary)) :
                   /\ node_from_index(PyInt(k), current_nodes.nodes) = k
                   /\ LinesOf(TurnSummary)[k] = prompt_line(current_nodes.nodes[k], k)

\* the actions of the latest plan that name a node by its index
IndexedActions ==
    {i \in 1..Len(plan.actions) : plan.actions[i].locator.strategy = "node_index"}

\* C28: in a run no planner, the heuristic one included, receives or
\* selects a node whose index is greater than the node limit N.
C28_PlannerWithinLimit ==
    HeuristicTurn
       => /\ \A k \in 1..Len(FallbackNodes(current_nodes.nodes)) :
                FallbackNodes(current_nodes.nodes)[k].index <= applied.arg.limit
          /\ \A i \in IndexedActions :
                plan.actions[i].locator.value.n <= applied.arg.limit

\* the request holds a cue for input, in any case of letters
RequestHasCue(request) == HasInputCue(ToLower(request))

\* the one action of a plan on a target is input_text with an empty value
\* when cue holds, and tap when it does not
CueDecides(p, cue) ==
    \A i \in 1..Len(p.actions) :
       p.actions[i].locator.strategy = "node_index"
          => IF cue THEN p.actions[i].name = "input_text" /\ p.actions[i].value = PyStr(<<>>)
             ELSE p.actions[i].name = "tap"

\* C29: on a target the heuristic planner emits input_text with an empty
\* value if the user request holds an input cue and tap otherwise, both
\* when it is given the bare request and when run_instruction gives it the
\* assembled prompt.
C29_CueDecidesAction ==
    /\ Applied("mock_actions")
          => CueDecides(applied.ret.plan, RequestHasCue(applied.arg.prompt))
    /\ HeuristicTurn => CueDecides(plan, RequestHasCue(applied.arg.request))

\* a node has a text or a content description
Labelled(node) == node.text # <<>> \/ node.content_desc # <<>>

\* C30: the node the heuristic planner chooses, from any node list and for
\* any request, has a non-empty text or a non-empty content description.
C30_ChosenNodeIsLabelled ==
    /\ (Applied("find_best_match") /\ applied.ret.at # 0)
          => Labelled(applied.arg.nodes[applied.ret.at])
    /\ Applied("mock_actions")
          => \A i \in 1..Len(applied.ret.plan.actions) :
                applied.ret.plan.actions[i].locator.strategy = "node_index"
                   => Labelled(applied.arg.nodes[applied.ret.plan.actions[i].locator.value.n])
    /\ HeuristicTurn
          => \A i \in IndexedActions :
                Labelled(current_nodes.nodes[plan.actions[i].locator.value.n])

\* a node is chosen from a list whose first node has no label and a
\* resource id that holds a keyword
C30_Witness ==
    /\ Applied("find_best_match")
    /\ applied.ret.at > 1
    /\ ~Labelled(applied.arg.nodes[1])
    /\ \E k \in 1..Len(applied.arg.keywords) :
          IsSubstr(applied.arg.keywords[k], applied.arg.nodes[1].resource_id)

\* the nodes of a list that _find_best_match scores: those it does not skip
Scored(nodes) == {k \in 1..Len(nodes) : Labelled(nodes[k])}

\* position at of nodes is the first of the scored nodes of highest score,
\* that score being positive; 0 stands for no node, when no score is
IsFirstBest(nodes, keywords, at) ==
    IF at = 0 THEN \A k \in Scored(nodes) : NodeScore(nodes[k], keywords) = 0
    ELSE /\ at \in Scored(nodes)
         /\ NodeScore(nodes[at], keywords) > 0
         /\ \A k \in Scored(nodes) :
               /\ NodeScore(nodes[k], keywords) <= NodeScore(nodes[at], keywords)
               /\ k < at => NodeScore(nodes[k], keywords) < NodeScore(nodes[at], keywords)

\* the target of a plan of the heuristic planner: the index its one action
\* names, 0 when it names none
TargetOf(p) ==
    IF p.actions[1].locator.strategy = "node_index" THEN p.actions[1].locator.value.n ELSE 0

\* C31: the target of the heuristic planner is the scored node of highest
\* score, the first in snapshot order among several of that score, and the
\* plan names it by node_index with its 1-based index.
C31_FirstOfHighestScore ==
    /\ Applied("find_best_match")
          => IsFirstBest(applied.arg.nodes, applied.arg.keywords, applied.ret.at)
    /\ Applied("mock_actions")
          => /\ IsFirstBest(applied.arg.nodes, extract_keywords(ToLower(applied.arg.prompt)),
                            TargetOf(applied.ret.plan))
             /\ TargetOf(applied.ret.plan) # 0
                   => applied.ret.plan.actions[1].locator.value
                         = PyInt(applied.arg.nodes[TargetOf(applied.ret.plan)].index)
    /\ HeuristicTurn
          => IsFirstBest(current_nodes.nodes,
                         extract_keywords(ToLower(applied.arg.request)),
                         TargetOf(plan))

\* a node is chosen before a later node of the same score
C31_Witness ==
    /\ Applied("find_best_match")
    /\ applied.ret.at # 0
    /\ \E k \in Scored(applied.arg.nodes) :
          /\ k > applied.ret.at
          /\ NodeScore(applied.arg.nodes[k], applied.arg.keywords)
                = NodeScore(applied.arg.nodes[applied.ret.at], applied.arg.keywords)

\* some keyword is held by the text, the description or the resource id
\* of some node, letters compared without their case
KeywordHit(nodes, keywords) ==
    \E k \in 1..Len(nodes), w \in 1..Len(keywords) :
       \/ IsSubstr(ToLower(keywords[w]), ToLower(nodes[k].text))
       \/ IsSubstr(ToLower(keywords[w]), ToLower(nodes[k].content_desc))
       \/ IsSubstr(ToLower(keywords[w]), ToLower(nodes[k].resource_id))

\* a plan of one action, a no-op when no keyword is held by any node
OneActionNoopUnlessHit(p, nodes, keywords) ==
    /\ Len(p.actions) = 1
    /\ ~KeywordHit(nodes, keywords)
          => p.actions[1].name = "noop" /\ p.actions[1].name \notin Vocabulary

\* C32: the heuristic planner returns a plan of exactly one action, which
\* is a no-op, recorded as skip when executed, whenever the node list is
\* empty or no node's text, description or resource id holds a keyword of
\* the request, a request without any keyword included.
C32_NoMatchIsNoop ==
    /\ Applied("mock_actions")
          => OneActionNoopUnlessHit(applied.ret.plan, applied.arg.nodes,
                                    extract_keywords(ToLower(applied.arg.prompt)))
    /\ HeuristicTurn
          => /\ OneActionNoopUnlessHit(plan, current_nodes.nodes,
                                       extract_keywords(ToLower(applied.arg.request)))
             /\ (plan.actions[1].name = "noop" /\ Len(logs) = 1) => logs[1].kind = "skip"

\* C33: every plan of the heuristic planner has the continuation flag
\* false, so a run_instruction with it makes exactly one plan and execute
\* turn for every max_turns >= 1 and takes no snapshot after that turn.
C33_HeuristicRunsOneTurn ==
    /\ Applied("mock_actions") => ~applied.ret.plan.request_refresh
    /\ applied.fn = "run_heuristic"
          => /\ batches <= 1 /\ snaps <= 1
             /\ batches = 1 => ~plan.request_refresh /\ snaps = 1 /\ planSnap = 1
             /\ (Ended /\ outcome = "returned")
                   => /\ batches = 1 /\ snaps = 1
                      /\ current_nodes.snap = planSnap
                      /\ Len(executed_actions) = 1

\* a run of more than one allowed turn has returned after its first
C33_Witness ==
    /\ applied.fn = "run_heuristic"
    /\ max_turns >= 2
    /\ Ended /\ outcome = "returned"
    /\ batches = 1 /\ snaps = 1

\* the step is one pass of the loop of _execute_plan
ExecStep ==
    /\ pc = "exec"
    /\ idx \in 1..Len(plan.actions)
    /\ Len(logs') = Len(logs) + 1

\* the step leaves the plan as it is but for the metadata of the action at
\* idx, which it leaves or extends by fallback_coordinates
PlanKeptButStash ==
    /\ Len(plan'.actions) = Len(plan.actions)
    /\ plan'.request_refresh = plan.request_refresh
    /\ \A i \in 1..Len(plan.actions) :
          /\ plan'.actions[i].name = plan.actions[i].name
          /\ plan'.actions[i].locator = plan.actions[i].locator
          /\ plan'.actions[i].value = plan.actions[i].value
          /\ \/ plan'.actions[i].metadata = plan.actions[i].metadata
             \/ /\ i = idx
                /\ "fallback_coordinates" \notin DOMAIN plan.actions[i].metadata
                /\ Stashed(plan'.actions[i])
                /\ plan'.actions[i].metadata
                      = WithFallback(plan.actions[i].metadata,
                                     plan'.actions[i].metadata["fallback_coordinates"])

\* C34 as stated: executing an action leaves the node collection as it is
\* (same nodes, same order, same fields), and the handlers change nothing
\* but the state of the driver and the device.
C34_OnlyDeviceChanges ==
    [][ExecStep => current_nodes' = current_nodes /\ plan' = plan]_vars

\* C34: executing an action leaves the node collection as it is (same
\* nodes, same order, same fields); besides the driver and the device the
\* handlers change only the metadata of the action they execute, to which
\* a tap or long press on a node without locator adds fallback_coordinates.
C34_NodesKept ==
    [][ExecStep => current_nodes' = current_nodes /\ PlanKeptButStash]_vars

\* two actions have run, the first resolved by node_index with a stash,
\* and the collection still holds its four nodes
C34_Witness ==
    /\ Ran(2)
    /\ plan.actions[1].locator.strategy = "node_index"
    /\ Stashed(plan.actions[1])
    /\ resolveSnap = current_nodes.snap
    /\ Len(current_nodes.nodes) = 4

\* the calls of action k in which the driver's hide-keyboard call failed
FailedHides(k) == {n \in CallsOf(k) : calls[n].c = "hide_keyboard" /\ ~calls[n].ok}

\* C35: a failing hide-keyboard call of the driver raises nothing, in a
\* hide_keyboard action and in the hide steps inside other actions: the
\* hide_keyboard action is recorded as ok, an action goes on after a failed
\* hide step or ends as ok with it, and the actions after it are executed.
C35_HideFailureSwallowed ==
    \A k \in 1..Len(logs) :
        (Ran(k) /\ FailedHides(k) # {})
        => /\ plan.actions[k].name = "hide_keyboard" => logs[k].kind = "ok"
           /\ \A n \in FailedHides(k) :
                 logs[k].kind = "ok" \/ \E m \in CallsOf(k) : m > n
           /\ (logs[k].kind = "ok" /\ Ended /\ k < Len(plan.actions)) => Len(logs) > k

\* a hide_keyboard action whose driver call failed was recorded as ok and
\* the back after it was executed
C35_Witness ==
    /\ Ran(2)
    /\ plan.actions[1].name = "hide_keyboard"
    /\ FailedHides(1) # {}
    /\ logs[1].kind = "ok" /\ logs[2].kind = "ok"
    /\ Made(2, "back")


\* the positions of the node-boundary lines of a dump
BoundaryLines(payload) == {i \in 1..Len(payload) : payload[i].head \in Boundaries}

\* the position of the j-th boundary line; the position after the end for
\* the one after the last
BoundaryAt(payload, j) ==
    IF j > Cardinality(BoundaryLines(payload)) THEN Len(payload) + 1
    ELSE CHOOSE i \in BoundaryLines(payload) :
            Cardinality({b \in BoundaryLines(payload) : b < i}) = j - 1

\* the lines with the given prefix between the j-th boundary and the next
FieldLines(payload, j, head) ==
    {i \in (BoundaryAt(payload, j) + 1)..(BoundaryAt(payload, j + 1) - 1) :
        payload[i].head = head}

\* what the last line with the given prefix after the j-th boundary says,
\* read by from; otherwise when the node has no such line
LastField(payload, j, head, from(_), otherwise) ==
    IF FieldLines(payload, j, head) = {} THEN otherwise
    ELSE from(payload[CHOOSE i \in FieldLines(payload, j, head) :
                        \A m \in FieldLines(payload, j, head) : m <= i])

RestOf(line) == line.rest

BoundsOf(line) == IF Len(line.ints) >= 4 THEN SubSeq(line.ints, 1, 4) ELSE <<0, 0, 0, 0>>

\* the node the j-th boundary of a dump opens, read from its own lines
NodeOfBoundary(payload, j) ==
    Snapshot(LastField(payload, j, "text:", RestOf, <<>>),
             LastField(payload, j, "contentDescription:", RestOf, <<>>),
             LastField(payload, j, "resourceName:", RestOf, <<>>),
             LastField(payload, j, "className:", RestOf, <<>>),
             LastField(payload, j, "boundsInScreen:", BoundsOf, <<0, 0, 0, 0>>))

\* C36: parse_accessibility_dump gives exactly one node per node-boundary
\* line, in the order of the lines; each node holds what the recognized field
\* lines between its boundary and the next one say, so lines before the first
\* boundary and unrecognized lines change nothing, and the node in progress
\* at the end of the input is included.
C36_OneNodePerBoundary ==
    Applied("parse_accessibility_dump")
    => /\ applied.ret.k = "nodes"
       /\ Len(applied.ret.nodes) = Cardinality(BoundaryLines(applied.arg))
       /\ \A j \in 1..Len(applied.ret.nodes) :
             applied.ret.nodes[j] = NodeOfBoundary(applied.arg, j)

\* a dump parsed into three nodes: it starts with a field line, the first
\* node has an unrecognized line and two text lines, the second node has no
\* line at all, and the last boundary is followed by the last line
C36_Witness ==
    /\ Applied("parse_accessibility_dump")
    /\ applied.arg # <<>>
    /\ applied.arg[1].head = "text:"
    /\ Len(applied.ret.nodes) = 3
    /\ Cardinality(FieldLines(applied.arg, 1, "text:")) = 2
    /\ FieldLines(applied.arg, 1, "") # {}
    /\ BoundaryAt(applied.arg, 3) = BoundaryAt(applied.arg, 2) + 1
    /\ applied.ret.nodes[1].text = <<"o", "k">>
    /\ applied.ret.nodes[3].resource_id = <<"b">>
    /\ BoundaryAt(applied.arg, 3) = Len(applied.arg) - 1


\* action k is a tap that names, by node_index, the node at position j,
\* whose bounds are not all zero
TapsBoundedNode(k, j) ==
    /\ Ran(k)
    /\ plan.actions[k].name = "tap"
    /\ plan.actions[k].locator.strategy = "node_index"
    /\ Names(plan.actions[k].locator.value, j, Len(current_nodes.nodes))
    /\ current_nodes.nodes[j].bounds # <<0, 0, 0, 0>>

\* action k clicked an element or made a gesture, whether or not the device
\* let the call succeed
ActedOnDevice(k) == \E n \in CallsOf(k) : calls[n].c \in {"click", "perform"}

\* C37: a tap whose node_index locator is in range and names a node with
\* bounds that are not all zero acts on the device: it clicks a resolved
\* element or makes a press-and-release gesture, whatever the node's id,
\* description and text are, a node with a text only included.
C37_IndexedTapActs ==
    \A k \in 1..Len(logs) : \A j \in 1..Len(current_nodes.nodes) :
        TapsBoundedNode(k, j) => ActedOnDevice(k)


\* how many actions of the plan _execute_plan has processed: those before
\* idx, and the one at idx when its exception ended the call
Processed == IF Aborted THEN idx ELSE idx - 1

\* C38: when _execute_plan has processed k actions of its plan, whether it
\* goes on, has returned or has raised at the k-th, its ledger holds exactly
\* k records, the n-th one describing the n-th action with one of the
\* prefixes ok, skip and error; an error record is the last one, and is
\* there exactly when the call raised.
C38_OneRecordPerAction ==
    (InRun /\ (pc = "exec" \/ Aborted))
    => /\ Len(logs) = Processed
       /\ Processed <= Len(plan.actions)
       /\ \A n \in 1..Len(logs) :
             /\ logs[n].kind \in {"ok", "skip", "error"}
             /\ logs[n].action = describe(plan.actions[n])
             /\ logs[n].kind = "error" <=> (Aborted /\ n = Len(logs))

\* a plan of two actions ended at the second one, after the first one was
\* skipped
C38_Witness ==
    /\ Aborted
    /\ Len(plan.actions) = 2
    /\ Processed = 2
    /\ logs[1].kind = "skip"
    /\ logs[2].kind = "error"


\* the planning calls of the run: the plans made and the call that raised
PlanningCalls ==
    batches + (IF outcome = "raised" /\ site = "plan" /\ exc = "PlannerError" THEN 1 ELSE 0)

\* C39: in every run of run_instruction the number of snapshot acquisitions
\* equals the number of planning calls, also when the run ends because
\* max_turns is reached while the planner still asks to continue: no
\* snapshot is taken that no plan uses.
C39_SnapshotPerPlan ==
    (InRun /\ Ended) => snaps = PlanningCalls


\* the last tool call was a setup_appium_connection that reached its step 4
\* and has ended
SetupDone ==
    /\ op = "setup_appium_connection"
    /\ Ended
    /\ ~(outcome = "raised" /\ site = "setup")

\* C40: after any sequence of tool calls at most one session opened by the
\* process is open: when setup_appium_connection has replaced the global
\* bridge, the session the previous bridge held has been closed.
C40_ReplacedSessionClosed ==
    (SetupDone /\ prev.driver # 0) => prev.driver \notin open

====
